---- MODULE Spec2Model ----
(***************************************************************************)
(* Model of the transcription core of videotrim (src/video_to_mp3.py):     *)
(* the segmenter, the timestamp synthesizer, the per-segment remote call   *)
(* with its response reconciliation (transcribe_audio_chunk) and the       *)
(* orchestrator (transcribe_audio_with_timestamps).                        *)
(*                                                                         *)
(* Strings are sequences of tokens.  A token is either one character of    *)
(* punctuation / whitespace, the three-backtick fence, or an atom: a       *)
(* maximal run of word characters (a word or an integer) or the decimal    *)
(* number 0.5.  The Python string a sequence stands for is the             *)
(* concatenation of its tokens.  The strings the model feeds to the code   *)
(* never hold two atoms side by side, and a backslash is followed only by  *)
(* a quote, a backslash or the atom n, so that slicing, searching and      *)
(* tokenising at token granularity agree with the character-level code.    *)
(*                                                                         *)
(* Times are integers in centiseconds (two decimals of a second); file     *)
(* sizes are bytes; offsets and durations of segments are seconds.         *)
(***************************************************************************)
EXTENDS Integers, Sequences, FiniteSets, TLC

Q == "\""
BS == "\\"
NL == "\n"
SP == " "
\* FENCE stands for the three-backtick code fence.
FENCE == "~~~"

Punct == {"{", "}", "[", "]", ",", ":", ".", "!", Q, BS, NL, SP, FENCE}

IsWs(t) == t \in {SP, NL}

IsAtom(t) == t \notin Punct

(***************************************************************************)
(* str helpers: count, find, rfind, in, strip, rstrip                      *)
(***************************************************************************)
Count(s, t) == Cardinality({i \in DOMAIN s : s[i] = t})

Matches(s, pat, i) ==
    /\ i >= 1
    /\ i + Len(pat) - 1 <= Len(s)
    /\ SubSeq(s, i, i + Len(pat) - 1) = pat

\* The least / greatest member of a set of indices, other when it is empty.
Least(S, other) == IF S = {} THEN other ELSE CHOOSE i \in S : \A j \in S : i <= j

Greatest(S, other) == IF S = {} THEN other ELSE CHOOSE i \in S : \A j \in S : i >= j

\* str.find(pat, from): the least index >= from where pat occurs, 0 for -1.
Find(s, pat, from) == Least({i \in from..Len(s) : Matches(s, pat, i)}, 0)

\* str.rfind(t) for a single character: the greatest index, 0 for -1.
RFind(s, t) == Greatest({i \in DOMAIN s : s[i] = t}, 0)

Contains(s, pat) == Find(s, pat, 1) # 0

\* The first index >= i that holds no whitespace (Len(s)+1 when none).
SkipWs(s, i) == Least({j \in i..Len(s) : ~IsWs(s[j])}, Len(s) + 1)

LStrip(s) == SubSeq(s, SkipWs(s, 1), Len(s))

RStrip(s) == SubSeq(s, 1, Greatest({j \in DOMAIN s : ~IsWs(s[j])}, 0))

Strip(s) == LStrip(RStrip(s))

\* str.strip(c) / str.rstrip(c) for one character c.
RStripChar(s, c) == SubSeq(s, 1, Greatest({j \in DOMAIN s : s[j] # c}, 0))

LStripChar(s, c) == SubSeq(s, Least({j \in DOMAIN s : s[j] # c}, Len(s) + 1), Len(s))

StripChar(s, c) == LStripChar(RStripChar(s, c), c)

\* s[:e] for an index e found by Find (the whole of s when e is 0): split(pat)[0]
UpTo(s, e) == IF e = 0 THEN s ELSE SubSeq(s, 1, e - 1)

Before(s, pat) == UpTo(s, Find(s, pat, 1))

\* What follows the first occurrence of sep in s, which holds one.
After(s, sep) == SubSeq(s, Find(s, sep, 1) + Len(sep), Len(s))

\* s.split(sep)[1].split(stop)[0]: what lies between the first sep and the
\* next sep or stop after it (to the end when there is none).
Between(s, sep, stop) == Before(Before(After(s, sep), sep), stop)

(***************************************************************************)
(* JSON values, as json.loads builds them.  A dict keeps its keys in       *)
(* insertion order; a repeated key keeps its place and takes the last      *)
(* value.                                                                  *)
(***************************************************************************)
None == [t |-> "None"]
JNull == [t |-> "null"]
JStr(s) == [t |-> "str", str |-> s]
JNum(n) == [t |-> "num", num |-> n]
JArr(items) == [t |-> "arr", arr |-> items]
JObj(members) == [t |-> "obj", obj |-> members]

\* k in d
ObjHas(d, k) == \E i \in DOMAIN d.obj : d.obj[i].k = k

\* d[k]
ObjGet(d, k) == d.obj[CHOOSE i \in DOMAIN d.obj : d.obj[i].k = k].v

\* d[k] = v
ObjSet(d, k, v) ==
    IF ObjHas(d, k)
    THEN JObj([i \in DOMAIN d.obj |->
                 IF d.obj[i].k = k THEN [k |-> k, v |-> v] ELSE d.obj[i]])
    ELSE JObj(Append(d.obj, [k |-> k, v |-> v]))

\* Python truthiness of a value: None, 0, "", [] and {} are false.
Truthy(v) ==
    CASE v.t = "None" -> FALSE
      [] v.t = "null" -> FALSE
      [] v.t = "num"  -> v.num # 0
      [] v.t = "str"  -> v.str # <<>>
      [] v.t = "arr"  -> v.arr # <<>>
      [] v.t = "obj"  -> v.obj # <<>>

\* The number atoms of the alphabet and their values in centiseconds.
NumToks == {"0", "1", "2", "0.5"}

NumVal(t) ==
    CASE t = "0" -> 0
      [] t = "1" -> 100
      [] t = "2" -> 200
      [] t = "0.5" -> 50

(***************************************************************************)
(* json.loads on a token string: a recursive-descent parse of objects,     *)
(* arrays, strings (with the escapes \" \\ \n), numbers and null, with     *)
(* whitespace between tokens; anything else, and anything left after the   *)
(* value, is a JSONDecodeError.                                            *)
(***************************************************************************)
Fail == [ok |-> FALSE]

Ok(v, n) == [ok |-> TRUE, val |-> v, next |-> n]

RECURSIVE StrBody(_, _, _)
\* The body of a string literal from index j, up to its closing quote.
StrBody(s, j, acc) ==
    IF j > Len(s) THEN Fail
    ELSE IF s[j] = Q THEN Ok(JStr(acc), j + 1)
    ELSE IF s[j] = NL THEN Fail
    ELSE IF s[j] = BS
         THEN IF j + 1 > Len(s) THEN Fail
              ELSE IF s[j + 1] \in {Q, BS}
                   THEN StrBody(s, j + 2, Append(acc, s[j + 1]))
              ELSE IF s[j + 1] = "n" THEN StrBody(s, j + 2, Append(acc, NL))
              ELSE Fail
    ELSE StrBody(s, j + 1, Append(acc, s[j]))

RECURSIVE ParseValue(_, _), ParseMembers(_, _, _), ParseElems(_, _, _)

\* After an object's '{': j is the next index that holds no whitespace.
ObjectBody(s, j) ==
    IF j <= Len(s) /\ s[j] = "}" THEN Ok(JObj(<<>>), j + 1)
    ELSE ParseMembers(s, j, JObj(<<>>))

\* After an array's '[': j is the next index that holds no whitespace.
ArrayBody(s, j) ==
    IF j <= Len(s) /\ s[j] = "]" THEN Ok(JArr(<<>>), j + 1)
    ELSE ParseElems(s, j, <<>>)

\* The value that starts at index i.
ParseValue(s, i) ==
    IF i > Len(s) THEN Fail
    ELSE CASE s[i] = "{" -> ObjectBody(s, SkipWs(s, i + 1))
           [] s[i] = "[" -> ArrayBody(s, SkipWs(s, i + 1))
           [] s[i] = Q -> StrBody(s, i + 1, <<>>)
           [] s[i] \in NumToks -> Ok(JNum(NumVal(s[i])), i + 1)
           [] s[i] = "null" -> Ok(JNull, i + 1)
           [] OTHER -> Fail

\* After a member's value, at index d: '}' ends the object, ',' goes on.
MemberNext(s, d, acc) ==
    IF d > Len(s) THEN Fail
    ELSE IF s[d] = "}" THEN Ok(acc, d + 1)
    ELSE IF s[d] = "," THEN ParseMembers(s, SkipWs(s, d + 1), acc)
    ELSE Fail

\* A member's value val, parsed after the key k.
MemberValue(s, k, val, acc) ==
    IF ~val.ok THEN Fail
    ELSE MemberNext(s, SkipWs(s, val.next), ObjSet(acc, k, val.val))

\* After a member's key k: c is the next index that holds no whitespace.
MemberColon(s, k, c, acc) ==
    IF c > Len(s) \/ s[c] # ":" THEN Fail
    ELSE MemberValue(s, k, ParseValue(s, SkipWs(s, c + 1)), acc)

MemberKey(s, key, acc) ==
    IF ~key.ok THEN Fail
    ELSE MemberColon(s, key.val.str, SkipWs(s, key.next), acc)

\* The members of an object from index i, where a key must start.
ParseMembers(s, i, acc) ==
    IF i > Len(s) \/ s[i] # Q THEN Fail
    ELSE MemberKey(s, StrBody(s, i + 1, <<>>), acc)

\* After an element, at index d: ']' ends the array, ',' goes on.
ElemNext(s, d, acc) ==
    IF d > Len(s) THEN Fail
    ELSE IF s[d] = "]" THEN Ok(JArr(acc), d + 1)
    ELSE IF s[d] = "," THEN ParseElems(s, SkipWs(s, d + 1), acc)
    ELSE Fail

ElemValue(s, val, acc) ==
    IF ~val.ok THEN Fail
    ELSE ElemNext(s, SkipWs(s, val.next), Append(acc, val.val))

\* The elements of an array from index i, where a value must start.
ParseElems(s, i, acc) == ElemValue(s, ParseValue(s, i), acc)

\* A top-level value r with nothing but whitespace after it.
WholeDocument(s, r) ==
    IF ~r.ok THEN Fail
    ELSE IF SkipWs(s, r.next) <= Len(s) THEN Fail
    ELSE [ok |-> TRUE, val |-> r.val]

JsonLoads(s) == WholeDocument(s, ParseValue(s, SkipWs(s, 1)))

(***************************************************************************)
(* get_audio_duration: seconds as a float with two decimals, here in       *)
(* centiseconds, or None (Unknown) when ffmpeg is missing, fails or        *)
(* prints no parseable Duration line.                                      *)
(***************************************************************************)
Unknown == -1

\* `if duration`: neither None nor 0.0
DurationKnown(duration) == duration # Unknown /\ duration # 0

(***************************************************************************)
(* generate_word_timestamps                                                *)
(***************************************************************************)
\* str.lower() on an atom.
Lower(t) ==
    CASE t = "Hello" -> "hello"
      [] t = "Just" -> "just"
      [] OTHER -> t

\* The \w+ runs of one token.
WordsOfTok(t) ==
    IF t = "0.5" THEN <<"0", "5">>
    ELSE IF IsAtom(t) THEN <<Lower(t)>>
    ELSE <<>>

RECURSIVE FindWords(_)
\* re.findall(r'\b\w+\b', text.lower())
FindWords(text) ==
    IF text = <<>> THEN <<>>
    ELSE WordsOfTok(Head(text)) \o FindWords(Tail(text))

\* p / q lies exactly halfway between two integers.
Halfway(p, q) == (2 * p) % (2 * q) = q

\* round(x, 2) for the float x nearest to p / q centiseconds (p >= 0, q > 0),
\* as the centiseconds it may return: the nearest integer, and either
\* neighbour when p / q lies halfway, where the float sum lies a rounding
\* error to one side or the other.
Roundings(p, q) ==
    IF Halfway(p, q) THEN {p \div q, p \div q + 1}
    ELSE IF 2 * (p % q) < q THEN {p \div q}
    ELSE {p \div q + 1}

\* round(p / q, 0) for p >= 0, q > 0: to the nearest integer, ties to even.
\* The calls modelled through this operator never round a value that lies
\* halfway.
RoundDiv(p, q) ==
    LET fl == p \div q
        r  == p % q
    IN  IF 2 * r < q THEN fl
        ELSE IF 2 * r > q THEN fl + 1
        ELSE IF fl % 2 = 0 THEN fl ELSE fl + 1

Min(a, b) == IF a <= b THEN a ELSE b

Max(a, b) == IF a >= b THEN a ELSE b

\* len(word) * 0.1 without its clamp, in centiseconds
Unclamped(word) == Len(word) * 10

\* max(0.2, min(0.8, len(word) * 0.1)), in centiseconds
WordDuration(word) == Max(20, Min(80, Len(word) * 10))

WordKey == <<"word">>
StartKey == <<"start">>
EndKey == <<"end">>
TextKey == <<"text">>
WordsKey == <<"words">>

\* {"word": w, "start": s, "end": e}
Span(w, s, e) ==
    JObj(<< [k |-> WordKey, v |-> JStr(w)],
            [k |-> StartKey, v |-> JNum(s)],
            [k |-> EndKey, v |-> JNum(e)] >>)

\* duration in centiseconds, chunk_offset in seconds.  current_time before
\* the k-th word is (k-1) * duration / len(words).
SpansOf(words, duration, chunk_offset) ==
    IF words = <<>> \/ duration <= 0 THEN <<>>
    ELSE [k \in 1..Len(words) |->
            Span(<<words[k]>>,
                 RoundDiv((k - 1) * duration + 100 * chunk_offset * Len(words),
                          Len(words)),
                 RoundDiv((k - 1) * duration
                            + (WordDuration(words[k]) + 100 * chunk_offset) * Len(words),
                          Len(words)))]

GenerateWordTimestamps(text, duration, chunk_offset) ==
    SpansOf(FindWords(text), duration, chunk_offset)

(***************************************************************************)
(* transcribe_audio_chunk: the reconciliation of the message content       *)
(***************************************************************************)
\* Lines 338-341: a fenced block tagged json first, then any fenced block.
StripFence(t) ==
    IF Contains(t, <<FENCE, "json">>)
    THEN Strip(Between(t, <<FENCE, "json">>, <<FENCE>>))
    ELSE IF Contains(t, <<FENCE>>)
    THEN Strip(Between(t, <<FENCE>>, <<FENCE>>))
    ELSE t

\* Lines 347-351: t[:last_bracket] + ']' when "words" is there and no ']' is.
CutAt(t, last_bracket) ==
    IF last_bracket # 0 THEN Append(SubSeq(t, 1, last_bracket - 1), "]") ELSE t

CloseWordsArray(t) ==
    IF Contains(t, <<Q, "words", Q>>) /\ RFind(t, "]") = 0
    THEN CutAt(t, RFind(t, "["))
    ELSE t

\* Lines 345-353: runs before the first json.loads, on every candidate with
\* more '{' than '}'.
RepairTruncated(t) ==
    IF Count(t, "{") > Count(t, "}")
    THEN RStripChar(RStrip(CloseWordsArray(t)), ",") \o <<NL, "}">>
    ELSE t

Candidate(content) == RepairTruncated(StripFence(content))

\* Lines 383-386 on one element of data['words'].  An element that is no
\* dict, or whose start / end is no number, raises TypeError.
ShiftField(word, key, chunk_offset) ==
    IF ~ObjHas(word, key) THEN [ok |-> TRUE, val |-> word]
    ELSE IF ObjGet(word, key).t # "num" THEN Fail
    ELSE [ok |-> TRUE,
          val |-> ObjSet(word, key, JNum(ObjGet(word, key).num + 100 * chunk_offset))]

ShiftEnd(started, chunk_offset) ==
    IF ~started.ok THEN Fail ELSE ShiftField(started.val, EndKey, chunk_offset)

ShiftSpan(word, chunk_offset) ==
    CASE word.t = "obj" -> ShiftEnd(ShiftField(word, StartKey, chunk_offset), chunk_offset)
      [] word.t = "str" ->
           IF Contains(word.str, StartKey) \/ Contains(word.str, EndKey)
           THEN Fail ELSE [ok |-> TRUE, val |-> word]
      [] word.t = "arr" ->
           IF \E k \in DOMAIN word.arr : word.arr[k] \in {JStr(StartKey), JStr(EndKey)}
           THEN Fail ELSE [ok |-> TRUE, val |-> word]
      [] OTHER -> Fail

\* Lines 382-386 on a truthy data['words'].
AllShifted(shifted) ==
    IF \E k \in DOMAIN shifted : ~shifted[k].ok THEN Fail
    ELSE [ok |-> TRUE, val |-> JArr([k \in DOMAIN shifted |-> shifted[k].val])]

ShiftWords(words, chunk_offset) ==
    CASE words.t = "arr" ->
           AllShifted([k \in DOMAIN words.arr |-> ShiftSpan(words.arr[k], chunk_offset)])
      [] words.t = "str" -> [ok |-> TRUE, val |-> words]
      [] words.t = "obj" ->
           IF \E k \in DOMAIN words.obj :
                 Contains(words.obj[k].k, StartKey) \/ Contains(words.obj[k].k, EndKey)
           THEN Fail ELSE [ok |-> TRUE, val |-> words]
      [] OTHER -> Fail

\* Lines 357-389, after json.loads succeeded.  A value that is no dict
\* raises TypeError in 358-379 on every path, and a "text" that is no str
\* raises AttributeError in generate_word_timestamps; line 462 turns both
\* into None.
\* Lines 376-377
DefaultText(data, transcription_text) ==
    IF ~ObjHas(data, TextKey) THEN ObjSet(data, TextKey, JStr(transcription_text)) ELSE data

\* Lines 378-379
DefaultWords(data) ==
    IF ~ObjHas(data, WordsKey) THEN ObjSet(data, WordsKey, JArr(<<>>)) ELSE data

\* Lines 382-387
WithShifted(data, shifted) ==
    IF ~shifted.ok THEN None ELSE ObjSet(data, WordsKey, shifted.val)

CompleteParsed(data, transcription_text, duration, chunk_offset) ==
    IF data.t # "obj" THEN None
    ELSE IF ~ObjHas(data, WordsKey) \/ ~Truthy(ObjGet(data, WordsKey))
    THEN IF DurationKnown(duration) /\ ObjHas(data, TextKey)
         THEN IF ObjGet(data, TextKey).t # "str" THEN None
              ELSE ObjSet(data, WordsKey,
                          JArr(GenerateWordTimestamps(ObjGet(data, TextKey).str,
                                                      duration, chunk_offset)))
         ELSE DefaultWords(DefaultText(data, transcription_text))
    ELSE WithShifted(data, ShiftWords(ObjGet(data, WordsKey), chunk_offset))

RECURSIVE Unescape(_)
\* Line 402: .replace('\\"', '"').replace('\\n', ' ').replace('\\t', ' ')
\* on a string that holds no quote.
Unescape(s) ==
    IF Len(s) < 2 THEN s
    ELSE IF s[1] = BS /\ s[2] \in {"n", "t"} THEN <<SP>> \o Unescape(SubSeq(s, 3, Len(s)))
    ELSE <<s[1]>> \o Unescape(Tail(s))

\* Where "text"\s*:\s*" matches at index i: the index of its last quote, else 0.
OpeningQuote(t, q) == IF q > Len(t) \/ t[q] # Q THEN 0 ELSE q

ColonThenQuote(t, c) ==
    IF c > Len(t) \/ t[c] # ":" THEN 0 ELSE OpeningQuote(t, SkipWs(t, c + 1))

TextKeyAt(t, i) ==
    IF ~Matches(t, <<Q, "text", Q>>, i) THEN 0 ELSE ColonThenQuote(t, SkipWs(t, i + 3))

\* Line 398: re.search(r'"text"\s*:\s*"([^"]*(?:\\.[^"]*)*)"', ...).  The
\* greedy [^"]* runs to the next quote, where the pattern ends: group 1 is
\* what lies before the first quote after the opening one.
ClosedAfter(t, q) == q # 0 /\ Find(t, <<Q>>, q + 1) # 0

GroupFrom(t, q) ==
    IF q = 0 THEN [ok |-> FALSE]
    ELSE [ok |-> TRUE, group |-> SubSeq(t, q + 1, Find(t, <<Q>>, q + 1) - 1)]

TextMatch(t) ==
    GroupFrom(t, TextKeyAt(t, Least({h \in DOMAIN t : ClosedAfter(t, TextKeyAt(t, h))}, 0)))

\* Lines 405-416: the text between the quotes after the first "text" key.
\* Lines 412-416
QuotedAtStart(remaining) ==
    IF remaining = <<>> \/ remaining[1] # Q THEN <<>>
    ELSE IF Find(remaining, <<Q>>, 2) = 0 THEN <<>>
    ELSE SubSeq(remaining, 2, Find(remaining, <<Q>>, 2) - 1)

\* Lines 410-411
AfterColon(remaining) ==
    IF remaining = <<>> \/ remaining[1] # ":" THEN <<>>
    ELSE QuotedAtStart(Strip(Tail(remaining)))

TextAfterKey(t) ==
    IF ~Contains(t, <<Q, "text", Q>>) THEN <<>>
    ELSE AfterColon(Strip(After(t, <<Q, "text", Q>>)))

\* Line 421: the control characters of the alphabet are the newlines.
StripControl(t) == SelectSeq(t, LAMBDA c : c # NL)

\* Line 423: re.sub(r'^\s*\{\s*"text"\s*:\s*"', '', text)
DropThrough(t, q) == IF q = 0 THEN t ELSE SubSeq(t, q + 1, Len(t))

BraceThenTextKey(t, b) ==
    IF b > Len(t) \/ t[b] # "{" THEN t
    ELSE DropThrough(t, TextKeyAt(t, SkipWs(t, b + 1)))

StripTextPrefix(t) == BraceThenTextKey(t, SkipWs(t, 1))

\* Line 424: re.sub(r'"\s*\}\s*$', '', text)
LastBraceAt(t, b) == b <= Len(t) /\ t[b] = "}" /\ SkipWs(t, b + 1) > Len(t)

StripTextSuffix(t) ==
    UpTo(t, Least({h \in DOMAIN t : t[h] = Q /\ LastBraceAt(t, SkipWs(t, h + 1))}, 0))

\* Lines 419-425
CleanRaw(t) == StripChar(Strip(StripTextSuffix(StripTextPrefix(StripControl(t)))), Q)

\* Lines 395-425: the text the fallback extracts ("" when none).
OrCleanRaw(found, t) == IF found = <<>> THEN CleanRaw(t) ELSE found

MatchedOrAfterKey(m, t) == IF m.ok THEN Unescape(m.group) ELSE TextAfterKey(t)

ExtractText(t) == OrCleanRaw(MatchedOrAfterKey(TextMatch(t), t), t)

\* {"text": text, "words": words}
Result(text, words) ==
    JObj(<< [k |-> TextKey, v |-> JStr(text)], [k |-> WordsKey, v |-> JArr(words)] >>)

\* Lines 427-446
FallbackResult(text, transcription_text, duration, chunk_offset) ==
    IF text # <<>>
    THEN Result(text,
                IF DurationKnown(duration)
                THEN GenerateWordTimestamps(text, duration, chunk_offset)
                ELSE <<>>)
    ELSE Result(transcription_text, <<>>)

\* Lines 390-446: the JSONDecodeError handler.
Fallback(transcription_text, duration, chunk_offset) ==
    FallbackResult(ExtractText(transcription_text), transcription_text, duration,
                   chunk_offset)

\* Lines 355-446: json.loads succeeded (parsed.ok) or raised JSONDecodeError.
ParsedOrFallback(parsed, transcription_text, duration, chunk_offset) ==
    IF parsed.ok
    THEN CompleteParsed(parsed.val, transcription_text, duration, chunk_offset)
    ELSE Fallback(transcription_text, duration, chunk_offset)

ReconcileCandidate(transcription_text, duration, chunk_offset) ==
    ParsedOrFallback(JsonLoads(transcription_text), transcription_text, duration,
                     chunk_offset)

\* Lines 336-446 for a message content that is a str.
Reconcile(content, duration, chunk_offset) ==
    ReconcileCandidate(Candidate(content), duration, chunk_offset)

(***************************************************************************)
(* transcribe_audio_chunk as a whole.  A call is described by what the     *)
(* environment gives it: the size of the file, whether it can be read, how *)
(* the HTTP exchange ends, the message content, and what the duration      *)
(* probe would report for the file.                                        *)
(***************************************************************************)
FiveMiB == 5 * 1024 * 1024

TenMiB == 10 * 1024 * 1024

\* A size guard that rejects the ceiling itself.
TooLargeAtCeiling(file_size) == file_size >= TenMiB

\* Lines 248-251
TooLarge(file_size) == file_size > TenMiB

\* How the exchange of lines 326-333 ends short of a content string:
\*   transport   requests.post or raise_for_status raises RequestException
\*   badjson     response.json() raises
\*   nochoices   no 'choices', or an empty list (line 448)
\*   nocontent   choices[0] has no message.content (KeyError, line 462)
\*   nonstr      the content is null (TypeError at line 338, line 462)
RespKinds == {"ok", "transport", "badjson", "nochoices", "nocontent", "nonstr"}

\* Lines 325-464, once the request has been posted.
AfterPost(in) ==
    IF in.resp # "ok" THEN None
    ELSE Reconcile(in.content, in.duration, in.offset)

\* The returned value, and whether requests.post was called.
TranscribeAudioChunk(in) ==
    IF TooLarge(in.size) THEN [result |-> None, posted |-> FALSE]
    ELSE IF ~in.readable THEN [result |-> None, posted |-> FALSE]
    ELSE [result |-> AfterPost(in), posted |-> TRUE]

(***************************************************************************)
(* The message contents the remote model is made to return: documents of   *)
(* the shape the prompt asks for, every truncation of them, fenced         *)
(* documents, plain text, and JSON that is no object.                      *)
(***************************************************************************)
RECURSIVE Escape(_)
Escape(s) ==
    IF s = <<>> THEN <<>>
    ELSE (CASE Head(s) = Q -> <<BS, Q>>
            [] Head(s) = BS -> <<BS, BS>>
            [] Head(s) = NL -> <<BS, "n">>
            [] OTHER -> <<Head(s)>>) \o Escape(Tail(s))

SerStr(s) == <<Q>> \o Escape(s) \o <<Q>>

\* {"word":"w","start":s,"end":e} with number tokens s, e
SerSpan(w, s, e) ==
    <<"{">> \o SerStr(WordKey) \o <<":">> \o SerStr(<<w>>) \o <<",">>
            \o SerStr(StartKey) \o <<":", s, ",">>
            \o SerStr(EndKey) \o <<":", e, "}">>

SerText(text) == SerStr(TextKey) \o <<":", SP>> \o SerStr(text)

SerWords(ws) == SerStr(WordsKey) \o <<":", SP>> \o ws

SpanA == SerSpan("a", "0", "0.5")

SpanB == SerSpan("b", "0", "0.5")

SpanNullEnd == SerSpan("a", "0", "null")

TwoSpans == <<"[">> \o SerSpan("Hello", "0", "0.5") \o <<",">> \o SerSpan("world", "1", "2") \o <<"]">>

DocA == <<"{">> \o SerText(<<"a">>) \o <<",", SP>> \o SerWords(<<"[">> \o SpanA \o <<"]">>) \o <<"}">>

DocB == <<"{">> \o SerText(<<"b">>) \o <<",", SP>> \o SerWords(<<"[">> \o SpanB \o <<"]">>) \o <<"}">>

DocHello == <<"{">> \o SerText(<<"Hello", SP, "world">>) \o <<",", SP>> \o SerWords(TwoSpans) \o <<"}">>

DocTextOnly == <<"{">> \o SerText(<<"Hello", SP, "world">>) \o <<"}">>

DocEmptyWords == <<"{">> \o SerText(<<"a">>) \o <<",", SP>> \o SerWords(<<"[", "]">>) \o <<"}">>

DocNullWords == <<"{">> \o SerText(<<"a">>) \o <<",", SP>> \o SerWords(<<"null">>) \o <<"}">>

DocWordsOnly == <<"{">> \o SerWords(<<"[">> \o SpanA \o <<"]">>) \o <<"}">>

DocEmptyText == <<"{">> \o SerText(<<>>) \o <<",", SP>> \o SerWords(<<"[">> \o SpanA \o <<"]">>) \o <<"}">>

DocBrace == <<"{">> \o SerText(<<"a", SP, "{">>) \o <<",", SP>> \o SerWords(<<"[">> \o SpanA \o <<"]">>) \o <<"}">>

DocQuote == <<"{">> \o SerText(<<"say", SP, Q, "a", Q>>) \o <<",", SP>> \o SerWords(<<"[">> \o SpanA \o <<"]">>) \o <<"}">>

DocNullEnd == <<"{">> \o SerText(<<"a">>) \o <<",", SP>> \o SerWords(<<"[">> \o SpanNullEnd \o <<"]">>) \o <<"}">>

DocNumText == <<"{">> \o SerStr(TextKey) \o <<":", SP, "1", ",", SP>> \o SerWords(<<"[">> \o SpanA \o <<"]">>) \o <<"}">>

\* Two spans the wrong way round, the first ending before it starts.
DocBackwards ==
    <<"{">> \o SerText(<<"b", SP, "a">>) \o <<",", SP>>
            \o SerWords(<<"[">> \o SerSpan("b", "1", "0.5") \o <<",">> \o SerSpan("a", "0", "0.5") \o <<"]">>)
            \o <<"}">>

Docs == {DocA, DocB, DocHello, DocTextOnly, DocEmptyWords, DocNullWords, DocWordsOnly,
         DocEmptyText, DocBrace, DocQuote, DocNullEnd, DocNumText, <<"{", "}">>}

Prefixes(d) == {SubSeq(d, 1, n) : n \in 1..Len(d)}

Truncations == UNION {Prefixes(d) : d \in Docs}

FencedJson(d) == <<FENCE, "json", NL>> \o d \o <<NL, FENCE>>

Fenced(d) == <<"Here", ":", NL, FENCE, NL>> \o d \o <<NL, FENCE, NL>>

PlainText == <<"Just", SP, "plain", SP, "text", "!">>

Contents ==
    Truncations
    \cup {FencedJson(d) : d \in {DocA, DocTextOnly, DocBrace}}
    \cup {Fenced(d) : d \in {DocA, DocNullWords}}
    \cup {SubSeq(FencedJson(DocHello), 1, n) : n \in {20, 40}}
    \cup {PlainText, SerStr(PlainText), <<>>, <<SP, NL>>,
          <<"1">>, <<"null">>, <<"[", "]">>, <<"[">> \o SpanA \o <<"]">>}

(***************************************************************************)
(* State.                                                                  *)
(*                                                                         *)
(* One run of transcribe_audio_with_timestamps (pc and what follows it),   *)
(* and one call of transcribe_audio_chunk taken step by step (c_pc and     *)
(* what follows it).                                                       *)
(***************************************************************************)
VARIABLES
    pc,                 \* where the run of transcribe_audio_with_timestamps is
    api_key,            \* whether OPENROUTER_API_KEY is set
    file_size,          \* os.path.getsize(mp3_path)
    seg_invoked,        \* whether split_audio_into_chunks has been called
    chunk_index,        \* split_audio_into_chunks: chunk_index
    start_time,         \* split_audio_into_chunks: start_time
    chunks,             \* split_audio_into_chunks: chunks (paths, by their index)
    files,              \* the chunks directory: the files in it, with their sizes
    source_duration,    \* the length of the audio in mp3_path, in seconds
    stopped_by,         \* split_audio_into_chunks: what ended the while loop
    i,                  \* the for loop's position in chunks
    all_words,          \* all_words
    full_text_parts,    \* full_text_parts
    transcription_data, \* transcription_data
    artifact,           \* what the JSON file holds (None: not written)
    ret,                \* what the run returned
    calls,              \* the calls of transcribe_audio_chunk so far, in order
    c_pc,               \* where the call of transcribe_audio_chunk is
    c_in,               \* its arguments and what its environment gives it
    c_out,              \* what it returned
    c_posted,           \* whether it has called requests.post
    g_pc,               \* where the call of generate_word_timestamps is
    g_in,               \* its arguments: text, duration (centiseconds), chunk_offset
    g_words,            \* generate_word_timestamps: words
    current_time,       \* current_time, in 1/len(words) of a centisecond
    words_with_timestamps,  \* words_with_timestamps
    at_offset_zero,     \* what the same call returns when chunk_offset is 0
    entry,              \* the front end that runs: cli, gui or web
    f_pc,               \* where the front end is
    ffmpeg_path,        \* whether find_ffmpeg found ffmpeg
    transcribe,         \* whether transcription is switched on
    mp3_path,           \* what convert_video_to_mp3 gave
    script,             \* the program that writes a JSON file
    audio_path,         \* the path of the audio it transcribes
    output_dir,         \* output_dir of transcribe_audio_with_timestamps
    json_path,          \* json_path
    path_pc,            \* where that program is
    is_processing,      \* VideoTrimGUI: self.is_processing
    video_path,         \* VideoTrimGUI: whether self.video_path is set
    transcribe_var,     \* VideoTrimGUI: self.transcribe_var
    workers,            \* where each thread of _process_video is
    exit_path,          \* how each thread left the try block
    last_click          \* what the last call of _start_processing did

vars == <<pc, api_key, file_size, seg_invoked, chunk_index, start_time, chunks, files,
          source_duration, stopped_by,
          i, all_words, full_text_parts, transcription_data, artifact, ret, calls,
          c_pc, c_in, c_out, c_posted,
          g_pc, g_in, g_words, current_time, words_with_timestamps, at_offset_zero,
          entry, f_pc, ffmpeg_path, transcribe, mp3_path,
          script, audio_path, output_dir, json_path, path_pc,
          is_processing, video_path, transcribe_var, workers, exit_path, last_click>>

runVars == <<pc, api_key, file_size, seg_invoked, chunk_index, start_time, chunks, files,
             source_duration, stopped_by,
             i, all_words, full_text_parts, transcription_data, artifact, ret, calls>>

callVars == <<c_pc, c_in, c_out, c_posted>>

synthVars == <<g_pc, g_in, g_words, current_time, words_with_timestamps, at_offset_zero>>

pathVars == <<script, audio_path, output_dir, json_path, path_pc>>

guiVars == <<is_processing, video_path, transcribe_var, workers, exit_path, last_click>>

\* No program that names a JSON file is followed.
PathIdle ==
    /\ script = "none"
    /\ audio_path = <<>>
    /\ output_dir = <<>>
    /\ json_path = <<>>
    /\ path_pc = "idle"

\* No window of the desktop GUI is open.
GuiIdle ==
    /\ is_processing = FALSE
    /\ video_path = FALSE
    /\ transcribe_var = FALSE
    /\ workers = <<>>
    /\ exit_path = <<>>
    /\ last_click = "none"

\* No call of generate_word_timestamps is followed.
SynthIdle ==
    /\ g_pc = "idle"
    /\ g_in = [text |-> <<>>, duration |-> 0, chunk_offset |-> 0]
    /\ g_words = <<>>
    /\ current_time = 0
    /\ words_with_timestamps = <<>>
    /\ at_offset_zero = <<>>

frontVars == <<entry, f_pc, ffmpeg_path, transcribe, mp3_path>>

\* No front end is followed.
FrontIdle ==
    /\ entry = "none"
    /\ f_pc = "idle"
    /\ ffmpeg_path = TRUE
    /\ transcribe = TRUE
    /\ mp3_path = "mp3"

\* The most segments a source is long enough for.
MaxChunks == 3

\* chunk_duration's default, in seconds
ChunkDuration == 300

Env(readable, resp, content, duration) ==
    [readable |-> readable, resp |-> resp, content |-> content, duration |-> duration]

Input(size, offset, env) ==
    [size |-> size, offset |-> offset, readable |-> env.readable, resp |-> env.resp,
     content |-> env.content, duration |-> env.duration]

\* What the environment may give one segment's call in a run.
SegEnvs ==
    { Env(TRUE, "ok", DocA, Unknown),
      Env(TRUE, "ok", DocB, Unknown),
      Env(TRUE, "ok", PlainText, 100),
      Env(TRUE, "ok", DocNullWords, Unknown),
      Env(TRUE, "ok", DocWordsOnly, Unknown),
      Env(TRUE, "ok", DocNumText, Unknown),
      Env(TRUE, "ok", DocBackwards, Unknown),
      Env(TRUE, "ok", SerStr(PlainText), Unknown),
      Env(TRUE, "transport", <<>>, Unknown) }

WholeEnvs == SegEnvs \cup {Env(FALSE, "ok", DocA, Unknown), Env(TRUE, "nochoices", <<>>, Unknown)}

\* The sizes a segment file may have.
SegSizes == {TenMiB, TenMiB + 1}

\* The lengths of the source, in seconds: whole multiples of the segment
\* length (0 for a file that holds no audio), one second more, and half a
\* segment more or less.
SourceDurations ==
    {d \in 0..(MaxChunks * ChunkDuration) : d % ChunkDuration \in {0, 1, ChunkDuration \div 2}}

(***************************************************************************)
(* transcribe_audio_with_timestamps and split_audio_into_chunks            *)
(***************************************************************************)
\* A split decision that segments a file of exactly the threshold.
NeedsSplitAtThreshold(size) == size >= FiveMiB

\* Line 500
NeedsSplit(size) == size > FiveMiB

\* A merge that keeps the first segment's text only.
JoinFirstOnly(parts) == IF parts = <<>> THEN <<>> ELSE parts[1].str

RECURSIVE JoinText(_)
\* Line 529: " ".join(full_text_parts), every part a str
JoinText(parts) ==
    IF parts = <<>> THEN <<>>
    ELSE IF Len(parts) = 1 THEN parts[1].str
    ELSE parts[1].str \o <<SP>> \o JoinText(Tail(parts))

\* Line 520: all_words.extend(words).  A list gives its items, a str its
\* characters, a dict its keys; None and a number raise TypeError.
CanExtend(words) == words.t \in {"arr", "str", "obj"}

ExtendWords(acc, words) ==
    CASE words.t = "arr" -> acc \o words.arr
      [] words.t = "str" -> acc \o [k \in DOMAIN words.str |-> JStr(<<words.str[k]>>)]
      [] words.t = "obj" -> acc \o [k \in DOMAIN words.obj |-> JStr(words.obj[k].k)]

\* An offset that counts the segments from one.
OffsetFromOne(index) == (index + 1) * ChunkDuration

\* Line 513
ChunkOffset(index) == index * ChunkDuration

SizeOf(index) == (CHOOSE f \in files : f.index = index).size

\* The record of one call: its arguments, what it returned and whether it
\* posted a request.
Call(whole, index, in, out) ==
    [whole |-> whole, index |-> index, offset |-> in.offset, size |-> in.size,
     result |-> out.result, posted |-> out.posted]

CallOf(whole, index, in) == Call(whole, index, in, TranscribeAudioChunk(in))

IdleInput == Input(0, 0, Env(TRUE, "ok", <<>>, Unknown))

Init ==
    /\ pc = "start"
    /\ api_key \in BOOLEAN
    /\ file_size \in {FiveMiB - 1, FiveMiB, FiveMiB + 1}
    /\ seg_invoked = FALSE
    /\ chunk_index = 0
    /\ start_time = 0
    /\ chunks = <<>>
    /\ files = {}
    /\ source_duration \in SourceDurations
    /\ stopped_by = "none"
    /\ i = 0
    /\ all_words = <<>>
    /\ full_text_parts = <<>>
    /\ transcription_data = None
    /\ artifact = None
    /\ ret = "pending"
    /\ calls = <<>>
    /\ c_pc = "idle"
    /\ c_in = IdleInput
    /\ c_out = None
    /\ c_posted = FALSE
    /\ SynthIdle
    /\ FrontIdle
    /\ PathIdle
    /\ GuiIdle

\* Lines 483-489
CheckApiKey ==
    /\ pc = "start"
    /\ IF api_key
       THEN pc' = "decide" /\ ret' = ret
       ELSE pc' = "done" /\ ret' = "None"
    /\ UNCHANGED <<api_key, file_size, source_duration, stopped_by, seg_invoked, chunk_index, start_time, chunks,
                   files, i, all_words, full_text_parts, transcription_data, artifact,
                   calls>>
    /\ UNCHANGED callVars
    /\ UNCHANGED synthVars
    /\ UNCHANGED frontVars
    /\ UNCHANGED pathVars
    /\ UNCHANGED guiVars

\* Lines 494-502 and 533-534
DecideSplit ==
    /\ pc = "decide"
    /\ IF NeedsSplit(file_size)
       THEN pc' = "split" /\ seg_invoked' = TRUE
       ELSE pc' = "whole" /\ seg_invoked' = seg_invoked
    /\ UNCHANGED <<api_key, file_size, source_duration, stopped_by, chunk_index, start_time, chunks, files, i,
                   all_words, full_text_parts, transcription_data, artifact, ret, calls>>
    /\ UNCHANGED callVars
    /\ UNCHANGED synthVars
    /\ UNCHANGED frontVars
    /\ UNCHANGED pathVars
    /\ UNCHANGED guiVars

\* A segment that skips every other window of the source.
SkipAWindow(start) == start + 2 * ChunkDuration

\* Line 179: start_time += chunk_duration
NextStart(start) == start + ChunkDuration

\* Lines 162-173: the window -ss start -t chunk_duration holds audio when it
\* starts inside the source.
InsideSource(start) == start < source_duration

\* The file ffmpeg writes at chunk_path for the window that starts at start.
ChunkFile(index, start, size) == [index |-> index, start |-> start, size |-> size]

\* What one run of ffmpeg leaves: it returned 0 and wrote a file of some
\* size, it returned 0 and wrote none, or it returned an error.
Written(size) == [failed |-> FALSE, exists |-> TRUE, size |-> size]

NotWritten == [failed |-> FALSE, exists |-> FALSE, size |-> 0]

Failed == [failed |-> TRUE, exists |-> FALSE, size |-> 0]

\* For a window inside the source ffmpeg writes a file that is not empty;
\* for a window at or past its end it leaves an empty file or none; and it
\* may fail on any window.
FfmpegOutcomes(start) ==
    (IF InsideSource(start) THEN {Written(size) : size \in SegSizes}
     ELSE {Written(0), NotWritten})
    \cup {Failed}

\* A file that exists whatever its size counts as a segment.
UsableWhenExists(outcome) == outcome.exists

\* Line 175: os.path.exists(chunk_path) and os.path.getsize(chunk_path) > 0
Usable(outcome) == outcome.exists /\ outcome.size > 0

\* Why the loop was left: CalledProcessError (line 183), or the else branch
\* of line 180 on an empty file or on none.
StopReason(outcome) ==
    IF outcome.failed THEN "error"
    ELSE IF outcome.exists THEN "empty"
    ELSE "missing"

\* The chunks directory after the turn.  A run that failed has whatever it
\* left removed (lines 185-186); a file written by a run that returned 0
\* stays, also when it is empty.
FilesAfter(outcome, index, start) ==
    IF outcome.failed \/ ~outcome.exists THEN files
    ELSE files \cup {ChunkFile(index, start, outcome.size)}

\* Lines 159-187, one turn of the while loop.  The segmenter has no bound of
\* its own; the guard on chunk_index is never reached by a source of at most
\* MaxChunks segments.
ExtractChunk ==
    /\ pc = "split"
    /\ chunk_index <= MaxChunks
    /\ \E outcome \in FfmpegOutcomes(start_time) :
          /\ files' = FilesAfter(outcome, chunk_index, start_time)
          /\ IF ~outcome.failed /\ Usable(outcome)
             THEN /\ chunks' = Append(chunks, chunk_index)
                  /\ chunk_index' = chunk_index + 1
                  /\ start_time' = NextStart(start_time)
                  /\ UNCHANGED <<pc, stopped_by>>
             ELSE /\ stopped_by' = StopReason(outcome)
                  /\ pc' = "split_done"
                  /\ UNCHANGED <<chunks, chunk_index, start_time>>
    /\ UNCHANGED <<api_key, file_size, source_duration, seg_invoked, i, all_words,
                   full_text_parts, transcription_data, artifact, ret, calls>>
    /\ UNCHANGED callVars
    /\ UNCHANGED synthVars
    /\ UNCHANGED frontVars
    /\ UNCHANGED pathVars
    /\ UNCHANGED guiVars

\* A run that goes on with whatever list the segmenter returned.
GoOnRegardless(made) == FALSE

\* Line 504: `if not chunks`
NoSegments(made) == made = <<>>

\* Lines 189-190 and 504-510
ReturnChunks ==
    /\ pc = "split_done"
    /\ IF NoSegments(chunks)
       THEN pc' = "done" /\ ret' = "None"
       ELSE pc' = "loop" /\ ret' = ret
    /\ i' = 0
    /\ all_words' = <<>>
    /\ full_text_parts' = <<>>
    /\ UNCHANGED <<api_key, file_size, source_duration, stopped_by, seg_invoked, chunk_index, start_time, chunks,
                   files, transcription_data, artifact, calls>>
    /\ UNCHANGED callVars
    /\ UNCHANGED synthVars
    /\ UNCHANGED frontVars
    /\ UNCHANGED pathVars
    /\ UNCHANGED guiVars

\* Lines 518-525 for the chunk_transcription the call returned.  A TypeError
\* of extend leaves the function as an exception.
Collect(call) ==
    /\ calls' = Append(calls, call)
    /\ IF ~Truthy(call.result)
       THEN /\ i' = i + 1
            /\ UNCHANGED <<pc, ret, all_words, full_text_parts>>
       ELSE IF ObjHas(call.result, WordsKey) /\ ~CanExtend(ObjGet(call.result, WordsKey))
       THEN /\ pc' = "raised"
            /\ ret' = "exception"
            /\ UNCHANGED <<i, all_words, full_text_parts>>
       ELSE /\ all_words' = IF ObjHas(call.result, WordsKey)
                            THEN ExtendWords(all_words, ObjGet(call.result, WordsKey))
                            ELSE all_words
            /\ full_text_parts' = IF ObjHas(call.result, TextKey)
                                  THEN Append(full_text_parts, ObjGet(call.result, TextKey))
                                  ELSE full_text_parts
            /\ i' = i + 1
            /\ UNCHANGED <<pc, ret>>

\* Lines 512-525, one turn of the for loop.
TranscribeSegment ==
    /\ pc = "loop"
    /\ i < Len(chunks)
    /\ \E env \in SegEnvs :
          Collect(CallOf(FALSE, chunks[i + 1],
                         Input(SizeOf(chunks[i + 1]), ChunkOffset(i), env)))
    /\ UNCHANGED <<api_key, file_size, source_duration, stopped_by, seg_invoked, chunk_index, start_time, chunks,
                   files, transcription_data, artifact>>
    /\ UNCHANGED callVars
    /\ UNCHANGED synthVars
    /\ UNCHANGED frontVars
    /\ UNCHANGED pathVars
    /\ UNCHANGED guiVars

\* A loop that is left once its first turn is over.
AfterFirstTurn(turns, made) == turns >= 1

\* Line 512: the for loop ends when enumerate(chunks) is exhausted.
LoopExhausted(turns, made) == turns = Len(made)

\* Lines 527-531.  join raises TypeError on a part that is no str.
MergeResults ==
    /\ pc = "loop"
    /\ LoopExhausted(i, chunks)
    /\ IF \E k \in DOMAIN full_text_parts : full_text_parts[k].t # "str"
       THEN /\ pc' = "raised"
            /\ ret' = "exception"
            /\ UNCHANGED transcription_data
       ELSE /\ transcription_data' = Result(JoinText(full_text_parts), all_words)
            /\ pc' = "save"
            /\ UNCHANGED ret
    /\ UNCHANGED <<api_key, file_size, source_duration, stopped_by, seg_invoked, chunk_index, start_time, chunks,
                   files, i, all_words, full_text_parts, artifact, calls>>
    /\ UNCHANGED callVars
    /\ UNCHANGED synthVars
    /\ UNCHANGED frontVars
    /\ UNCHANGED pathVars
    /\ UNCHANGED guiVars

\* A whole-file run that saves whatever the call returned.
WholeNeverFailed(result) == FALSE

\* Line 537: `if not transcription_data`
WholeFailed(result) == ~Truthy(result)

\* Lines 535-538 for the transcription_data the call returned.
WholeResult(call) ==
    /\ calls' = Append(calls, call)
    /\ transcription_data' = call.result
    /\ IF WholeFailed(call.result)
       THEN pc' = "done" /\ ret' = "None"
       ELSE pc' = "save" /\ ret' = ret

\* Lines 532-538
TranscribeWhole ==
    /\ pc = "whole"
    /\ \E env \in WholeEnvs : WholeResult(CallOf(TRUE, 0, Input(file_size, 0, env)))
    /\ UNCHANGED <<api_key, file_size, source_duration, stopped_by, seg_invoked, chunk_index, start_time, chunks,
                   files, i, all_words, full_text_parts, artifact>>
    /\ UNCHANGED callVars
    /\ UNCHANGED synthVars
    /\ UNCHANGED frontVars
    /\ UNCHANGED pathVars
    /\ UNCHANGED guiVars

\* len() takes a list, a str and a dict; None and a number raise TypeError.
HasLen(v) == v.t \in {"arr", "str", "obj"}

\* Lines 551-555: the statistics printed once the file is written.
StatsRaise(data) ==
    \/ ObjHas(data, WordsKey) /\ ~HasLen(ObjGet(data, WordsKey))
    \/ ObjHas(data, TextKey) /\ ~HasLen(ObjGet(data, TextKey))

\* Lines 540-557.  The file is written before the statistics are printed.
SaveJson ==
    /\ pc = "save"
    /\ artifact' = transcription_data
    /\ IF StatsRaise(transcription_data)
       THEN pc' = "raised" /\ ret' = "exception"
       ELSE pc' = "done" /\ ret' = "json_path"
    /\ UNCHANGED <<api_key, file_size, source_duration, stopped_by, seg_invoked, chunk_index, start_time, chunks,
                   files, i, all_words, full_text_parts, transcription_data, calls>>
    /\ UNCHANGED callVars
    /\ UNCHANGED synthVars
    /\ UNCHANGED frontVars
    /\ UNCHANGED pathVars
    /\ UNCHANGED guiVars

Next ==
    \/ CheckApiKey
    \/ DecideSplit
    \/ ExtractChunk
    \/ ReturnChunks
    \/ TranscribeSegment
    \/ MergeResults
    \/ TranscribeWhole
    \/ SaveJson

Spec == Init /\ [][Next]_vars

(***************************************************************************)
(* transcribe_audio_chunk, one call taken step by step over every message  *)
(* content of Contents, with and without a duration from the probe, and    *)
(* over the ways a call ends short of a content.                           *)
(***************************************************************************)
\* How the run of ffmpeg -i in get_audio_duration may end: it cannot be
\* started, its stderr holds no Duration line, the line holds N/A, the line
\* holds three fields that are no numbers, or it holds hours, minutes and
\* seconds (here in centiseconds).
Time(hours, minutes, centis) ==
    [kind |-> "time", hours |-> hours, minutes |-> minutes, centis |-> centis]

Probes ==
    {[kind |-> k] : k \in {"not_started", "no_line", "not_available", "no_numbers"}}
    \cup {Time(0, 0, 0), Time(0, 0, 150), Time(0, 5, 0)}

\* Lines 108-133: hours * 3600 + minutes * 60 + seconds, or None; every
\* exception is caught at line 131.
GetAudioDuration(probe) ==
    IF probe.kind = "time"
    THEN probe.hours * 360000 + probe.minutes * 6000 + probe.centis
    ELSE Unknown

\* What get_audio_duration may report, in centiseconds.
Durations == {GetAudioDuration(probe) : probe \in Probes}

\* chunk_offset of the first two segments
Offsets == {ChunkOffset(0), ChunkOffset(1)}

ChunkInputs ==
    {Input(TenMiB, o, Env(TRUE, "ok", c, d)) : o \in Offsets, c \in Contents, d \in Durations}
    \cup {Input(size, ChunkOffset(1), Env(r, k, DocA, Unknown)) :
            size \in {TenMiB, TenMiB + 1}, r \in BOOLEAN, k \in RespKinds}

InitChunk ==
    /\ pc = "idle"
    /\ api_key = TRUE
    /\ file_size = 0
    /\ seg_invoked = FALSE
    /\ chunk_index = 0
    /\ start_time = 0
    /\ chunks = <<>>
    /\ files = {}
    /\ source_duration = ChunkDuration
    /\ stopped_by = "none"
    /\ i = 0
    /\ all_words = <<>>
    /\ full_text_parts = <<>>
    /\ transcription_data = None
    /\ artifact = None
    /\ ret = "pending"
    /\ calls = <<>>
    /\ c_pc = "size"
    /\ c_in \in ChunkInputs
    /\ c_out = None
    /\ c_posted = FALSE
    /\ SynthIdle
    /\ FrontIdle
    /\ PathIdle
    /\ GuiIdle

\* Lines 247-251
ChunkSizeGuard ==
    /\ c_pc = "size"
    /\ IF TooLarge(c_in.size)
       THEN c_pc' = "returned" /\ c_out' = None
       ELSE c_pc' = "read" /\ c_out' = c_out
    /\ UNCHANGED <<c_in, c_posted>>
    /\ UNCHANGED runVars
    /\ UNCHANGED synthVars
    /\ UNCHANGED frontVars
    /\ UNCHANGED pathVars
    /\ UNCHANGED guiVars

\* Lines 253-259
ChunkReadFile ==
    /\ c_pc = "read"
    /\ IF ~c_in.readable
       THEN c_pc' = "returned" /\ c_out' = None
       ELSE c_pc' = "post" /\ c_out' = c_out
    /\ UNCHANGED <<c_in, c_posted>>
    /\ UNCHANGED runVars
    /\ UNCHANGED synthVars
    /\ UNCHANGED frontVars
    /\ UNCHANGED pathVars
    /\ UNCHANGED guiVars

\* Lines 325-333 and 447-464
ChunkPost ==
    /\ c_pc = "post"
    /\ c_posted' = TRUE
    /\ IF c_in.resp # "ok"
       THEN c_pc' = "returned" /\ c_out' = None
       ELSE c_pc' = "reconcile" /\ c_out' = c_out
    /\ UNCHANGED c_in
    /\ UNCHANGED runVars
    /\ UNCHANGED synthVars
    /\ UNCHANGED frontVars
    /\ UNCHANGED pathVars
    /\ UNCHANGED guiVars

\* Lines 336-446 and 462-464
ChunkReconcile ==
    /\ c_pc = "reconcile"
    /\ c_out' = Reconcile(c_in.content, c_in.duration, c_in.offset)
    /\ c_pc' = "returned"
    /\ UNCHANGED <<c_in, c_posted>>
    /\ UNCHANGED runVars
    /\ UNCHANGED synthVars
    /\ UNCHANGED frontVars
    /\ UNCHANGED pathVars
    /\ UNCHANGED guiVars

NextChunk ==
    \/ ChunkSizeGuard
    \/ ChunkReadFile
    \/ ChunkPost
    \/ ChunkReconcile

SpecChunk == InitChunk /\ [][NextChunk]_vars

(***************************************************************************)
(* One call of generate_word_timestamps, followed word by word.            *)
(***************************************************************************)
\* The most words of a text given to the synthesizer.
MaxWords == 3

\* Words of 1, 5 and 13 characters.
SynthAtoms == {"a", "Hello", "transcription"}

\* The words of ws with one space between neighbours.
JoinWords(ws) ==
    [k \in 1..(2 * Len(ws) - 1) |-> IF k % 2 = 1 THEN ws[(k + 1) \div 2] ELSE SP]

SynthTexts ==
    {<<>>, <<"!">>}
    \cup {JoinWords(ws) : ws \in UNION {[1..n -> SynthAtoms] : n \in 1..MaxWords}}

\* duration, in centiseconds
SynthDurations == {0, 1, 11, 75, 150, 30000}

SynthInputs ==
    {[text |-> t, duration |-> d, chunk_offset |-> o] :
        t \in SynthTexts, d \in SynthDurations, o \in Offsets}

InitWords ==
    /\ pc = "idle"
    /\ api_key = TRUE
    /\ file_size = 0
    /\ seg_invoked = FALSE
    /\ chunk_index = 0
    /\ start_time = 0
    /\ chunks = <<>>
    /\ files = {}
    /\ source_duration = ChunkDuration
    /\ stopped_by = "none"
    /\ i = 0
    /\ all_words = <<>>
    /\ full_text_parts = <<>>
    /\ transcription_data = None
    /\ artifact = None
    /\ ret = "pending"
    /\ calls = <<>>
    /\ c_pc = "idle"
    /\ c_in = IdleInput
    /\ c_out = None
    /\ c_posted = FALSE
    /\ g_pc = "start"
    /\ g_in \in SynthInputs
    /\ g_words = <<>>
    /\ current_time = 0
    /\ words_with_timestamps = <<>>
    /\ at_offset_zero = <<>>
    /\ FrontIdle
    /\ PathIdle
    /\ GuiIdle

\* Lines 208-217
SynthStart ==
    /\ g_pc = "start"
    /\ g_words' = FindWords(g_in.text)
    /\ IF g_words' = <<>> \/ g_in.duration <= 0
       THEN g_pc' = "done"
       ELSE g_pc' = "loop"
    /\ current_time' = 0
    /\ words_with_timestamps' = <<>>
    /\ at_offset_zero' = <<>>
    /\ UNCHANGED g_in
    /\ UNCHANGED runVars
    /\ UNCHANGED callVars
    /\ UNCHANGED frontVars
    /\ UNCHANGED pathVars
    /\ UNCHANGED guiVars

\* Line 229: current_time += time_per_word, in 1/len(words) of a centisecond
Advance(cursor, duration) == cursor + duration

\* An offset that is added twice.
OffsetTwice(chunk_offset, n) == 200 * chunk_offset * n

\* Lines 225-226: + chunk_offset, in 1/n of a centisecond
OffsetShift(chunk_offset, n) == 100 * chunk_offset * n

\* Lines 219-229: one turn of the for loop, for the word after those that
\* have their span.  The call with chunk_offset 0 on the same text and
\* duration is followed beside it: the two round the same values a whole
\* number of seconds apart, each on its own.
SynthWord ==
    /\ g_pc = "loop"
    /\ Len(words_with_timestamps) < Len(g_words)
    /\ LET n == Len(g_words)
           word == g_words[Len(words_with_timestamps) + 1]
           shift == OffsetShift(g_in.chunk_offset, n)
       IN  \E s \in Roundings(current_time + shift, n) :
           \E e \in Roundings(current_time + WordDuration(word) * n + shift, n) :
           \E s0 \in Roundings(current_time, n) :
           \E e0 \in Roundings(current_time + WordDuration(word) * n, n) :
               /\ g_in.chunk_offset = 0 => (s0 = s /\ e0 = e)
               /\ words_with_timestamps' = Append(words_with_timestamps, Span(<<word>>, s, e))
               /\ at_offset_zero' = Append(at_offset_zero, Span(<<word>>, s0, e0))
    /\ current_time' = Advance(current_time, g_in.duration)
    /\ UNCHANGED <<g_pc, g_in, g_words>>
    /\ UNCHANGED runVars
    /\ UNCHANGED callVars
    /\ UNCHANGED frontVars
    /\ UNCHANGED pathVars
    /\ UNCHANGED guiVars

\* Line 231
SynthReturn ==
    /\ g_pc = "loop"
    /\ Len(words_with_timestamps) = Len(g_words)
    /\ g_pc' = "done"
    /\ UNCHANGED <<g_in, g_words, current_time, words_with_timestamps, at_offset_zero>>
    /\ UNCHANGED runVars
    /\ UNCHANGED callVars
    /\ UNCHANGED frontVars
    /\ UNCHANGED pathVars
    /\ UNCHANGED guiVars

NextWords ==
    \/ SynthStart
    \/ SynthWord
    \/ SynthReturn

SpecWords == InitWords /\ [][NextWords]_vars

(***************************************************************************)
(* The three front ends: main of video_to_mp3.py, the worker thread of the *)
(* GUI and the generator of the web /process handler.  Each finds ffmpeg,  *)
(* converts the video to MP3 and hands the MP3 to                          *)
(* transcribe_audio_with_timestamps.                                       *)
(***************************************************************************)
Entries == {"cli", "gui", "web"}

\* How convert_video_to_mp3 may end: with the path of the MP3, with
\* sys.exit(1) after ffmpeg returned an error (lines 93-95), or with the
\* exception of subprocess.run when ffmpeg could not be started, a TypeError
\* when ffmpeg_path is None.
ConvertOutcomes(found) ==
    IF found THEN {"ok", "SystemExit", "OSError"} ELSE {"TypeError"}

\* A front end that goes on to the transcription whatever the conversion did.
IgnoreFailure(front, outcome) == "transcribe"

\* Where a front end goes on after convert_video_to_mp3.  SystemExit and the
\* other exceptions leave main; in the GUI worker except Exception shows the
\* error and SystemExit ends the thread; the web generator returns on both.
AfterConvert(front, outcome) ==
    IF outcome = "ok" THEN "transcribe"
    ELSE IF front = "cli" THEN "exited"
    ELSE IF front = "web" THEN "returned"
    ELSE IF outcome = "SystemExit" THEN "thread_died"
    ELSE "error_shown"

\* The lengths of the MP3 a front end hands on, in seconds: sources of one
\* or two segments.
FrontDurations == {d \in SourceDurations : d <= ChunkDuration + 1}

InitFront ==
    /\ pc = "idle"
    /\ api_key \in BOOLEAN
    /\ file_size \in {FiveMiB - 1, FiveMiB, FiveMiB + 1}
    /\ seg_invoked = FALSE
    /\ chunk_index = 0
    /\ start_time = 0
    /\ chunks = <<>>
    /\ files = {}
    /\ source_duration \in FrontDurations
    /\ stopped_by = "none"
    /\ i = 0
    /\ all_words = <<>>
    /\ full_text_parts = <<>>
    /\ transcription_data = None
    /\ artifact = None
    /\ ret = "pending"
    /\ calls = <<>>
    /\ c_pc = "idle"
    /\ c_in = IdleInput
    /\ c_out = None
    /\ c_posted = FALSE
    /\ SynthIdle
    /\ PathIdle
    /\ GuiIdle
    /\ entry \in Entries
    /\ f_pc = "find"
    /\ ffmpeg_path = FALSE
    /\ transcribe \in BOOLEAN
    /\ mp3_path = "unset"
    \* The GUI starts its worker with transcription on only when the key is set.
    /\ (entry = "gui" /\ transcribe) => api_key

\* find_ffmpeg and what the front end does when it found none: main exits
\* (also when the video file does not exist), the web generator returns, the
\* GUI worker goes on with ffmpeg_path None.
FrontFindFfmpeg ==
    /\ f_pc = "find"
    /\ \E found \in BOOLEAN, video_exists \in BOOLEAN :
          /\ ffmpeg_path' = found
          /\ f_pc' = IF entry = "cli" /\ (~found \/ ~video_exists) THEN "exited"
                     ELSE IF entry = "web" /\ ~found THEN "returned"
                     ELSE "convert"
    /\ UNCHANGED <<entry, transcribe, mp3_path>>
    /\ UNCHANGED runVars
    /\ UNCHANGED callVars
    /\ UNCHANGED synthVars
    /\ UNCHANGED pathVars
    /\ UNCHANGED guiVars

\* The call of convert_video_to_mp3 and the handling of its failure.
FrontConvert ==
    /\ f_pc = "convert"
    /\ \E outcome \in ConvertOutcomes(ffmpeg_path) :
          /\ mp3_path' = IF outcome = "ok" THEN "mp3" ELSE "None"
          /\ f_pc' = AfterConvert(entry, outcome)
    /\ UNCHANGED <<entry, ffmpeg_path, transcribe>>
    /\ UNCHANGED runVars
    /\ UNCHANGED callVars
    /\ UNCHANGED synthVars
    /\ UNCHANGED pathVars
    /\ UNCHANGED guiVars

\* The front end calls transcribe_audio_with_timestamps unless transcription
\* is switched off.
FrontTranscribe ==
    /\ f_pc = "transcribe"
    /\ IF transcribe
       THEN pc' = "start" /\ f_pc' = "running"
       ELSE pc' = pc /\ f_pc' = "finished"
    /\ UNCHANGED <<entry, ffmpeg_path, transcribe, mp3_path>>
    /\ UNCHANGED <<api_key, file_size, seg_invoked, chunk_index, start_time, chunks, files,
                   source_duration, stopped_by, i, all_words, full_text_parts,
                   transcription_data, artifact, ret, calls>>
    /\ UNCHANGED callVars
    /\ UNCHANGED synthVars
    /\ UNCHANGED pathVars
    /\ UNCHANGED guiVars

\* transcribe_audio_with_timestamps has returned or raised.
FrontFinish ==
    /\ f_pc = "running"
    /\ pc \in {"done", "raised"}
    /\ f_pc' = IF pc = "done" THEN "finished"
               ELSE IF entry = "cli" THEN "exited"
               ELSE "error_shown"
    /\ UNCHANGED <<entry, ffmpeg_path, transcribe, mp3_path>>
    /\ UNCHANGED runVars
    /\ UNCHANGED callVars
    /\ UNCHANGED synthVars
    /\ UNCHANGED pathVars
    /\ UNCHANGED guiVars

\* The steps of transcribe_audio_with_timestamps inside the front end.
FrontRun == f_pc = "running" /\ Next

NextFront ==
    \/ FrontFindFfmpeg
    \/ FrontConvert
    \/ FrontTranscribe
    \/ FrontRun
    \/ FrontFinish

SpecFront == InitFront /\ [][NextFront]_vars

(***************************************************************************)
(* The path of the JSON file, as the three programs that write one name    *)
(* it: transcribe_audio_with_timestamps, transcribe_audio.py and           *)
(* transcribe_single.py.  A path is a sequence of tokens.                  *)
(***************************************************************************)
\* No run of transcribe_audio_with_timestamps and no call of
\* transcribe_audio_chunk is followed.
RunIdle ==
    /\ pc = "idle"
    /\ api_key = TRUE
    /\ file_size = 0
    /\ seg_invoked = FALSE
    /\ chunk_index = 0
    /\ start_time = 0
    /\ chunks = <<>>
    /\ files = {}
    /\ source_duration = ChunkDuration
    /\ stopped_by = "none"
    /\ i = 0
    /\ all_words = <<>>
    /\ full_text_parts = <<>>
    /\ transcription_data = None
    /\ artifact = None
    /\ ret = "pending"
    /\ calls = <<>>
    /\ c_pc = "idle"
    /\ c_in = IdleInput
    /\ c_out = None
    /\ c_posted = FALSE

Slash == "/"

DotMp3 == <<".mp3">>

TranscriptionJson == <<"_transcription.json">>

RECURSIVE Replace(_, _, _)
\* str.replace(old, new): every occurrence, from the left, none overlapping.
Replace(s, old, new) ==
    IF s = <<>> THEN <<>>
    ELSE IF Matches(s, old, 1)
    THEN new \o Replace(SubSeq(s, Len(old) + 1, Len(s)), old, new)
    ELSE <<Head(s)>> \o Replace(Tail(s), old, new)

\* os.path.basename(p): what follows the last slash.
Basename(p) == SubSeq(p, RFind(p, Slash) + 1, Len(p))

\* os.path.dirname(p): what precedes the last slash.
Dirname(p) == SubSeq(p, 1, RFind(p, Slash) - 1)

\* os.path.join(dir, name)
JoinPath(dir, name) == IF dir = <<>> THEN name ELSE dir \o <<Slash>> \o name

\* video_to_mp3.py lines 541-542, transcribe_audio.py line 47,
\* transcribe_single.py line 39.
JsonPath(program, path, dir) ==
    IF program = "video_to_mp3"
    THEN JoinPath(dir, Replace(Basename(path), DotMp3, TranscriptionJson))
    ELSE Replace(path, DotMp3, TranscriptionJson)

Extensions == {".mp3", ".wav", ".MP3"}

\* Names with no extension, with one and with two.
FileNames ==
    {<<"a">>} \cup {<<"a", x>> : x \in Extensions}
              \cup {<<"a", x, y>> : x \in Extensions, y \in Extensions}

\* The working directory, a plain directory and one named like an MP3.
Dirs == {<<>>, <<"out">>, <<"a", ".mp3">>}

Scripts == {"video_to_mp3", "transcribe_audio", "transcribe_single"}

\* transcribe_single.py line 31 sets output_dir to the directory of the
\* audio; transcribe_audio.py has none.
InitPaths ==
    /\ RunIdle
    /\ script \in Scripts
    /\ \E dir \in Dirs, name \in FileNames :
          /\ audio_path = JoinPath(dir, name)
          /\ output_dir \in IF script = "video_to_mp3" THEN Dirs ELSE {dir}
    /\ json_path = <<>>
    /\ path_pc = "start"
    /\ GuiIdle
    /\ SynthIdle
    /\ FrontIdle

\* The call of transcribe_audio_chunk (or the calls, for the segments):
\* video_to_mp3.py lines 500-538, transcribe_audio.py lines 41-45,
\* transcribe_single.py lines 36-38 and 48-50.
PathTranscribe ==
    /\ path_pc = "start"
    /\ path_pc' \in {"transcribed", "failed"}
    /\ UNCHANGED <<script, audio_path, output_dir, json_path>>
    /\ UNCHANGED runVars
    /\ UNCHANGED callVars
    /\ UNCHANGED synthVars
    /\ UNCHANGED frontVars
    /\ UNCHANGED guiVars

\* open(json_path, 'w') and json.dump: video_to_mp3.py lines 541-545,
\* transcribe_audio.py lines 47-50, transcribe_single.py lines 39-42.
\* open raises FileNotFoundError when the directory of json_path is none of
\* the directories there are.
PathWrite ==
    /\ path_pc = "transcribed"
    /\ json_path' = JsonPath(script, audio_path, output_dir)
    /\ path_pc' = IF Dirname(json_path') \in Dirs THEN "written" ELSE "raised"
    /\ UNCHANGED <<script, audio_path, output_dir>>
    /\ UNCHANGED runVars
    /\ UNCHANGED callVars
    /\ UNCHANGED synthVars
    /\ UNCHANGED frontVars
    /\ UNCHANGED guiVars

NextPaths ==
    \/ PathTranscribe
    \/ PathWrite

SpecPaths == InitPaths /\ [][NextPaths]_vars

(***************************************************************************)
(* The desktop GUI: the handlers that run on the Tk main thread            *)
(* (_select_video_file, the transcription checkbox, _start_processing) and *)
(* the threads of _process_video they start.  The handlers run one at a    *)
(* time; a thread advances between any two of them.                        *)
(***************************************************************************)
\* The most threads started in one session of the window.
MaxRuns == 3

\* A handler that starts a run whenever a file is selected.
BusyIgnored(selected, processing) == ~selected

\* Line 209: `if not self.video_path or self.is_processing: return`
Busy(selected, processing) == ~selected \/ processing

\* Lines 48-50 and 120: the window as __init__ leaves it.
InitGui ==
    /\ RunIdle
    /\ SynthIdle
    /\ FrontIdle
    /\ PathIdle
    /\ is_processing = FALSE
    /\ video_path = FALSE
    /\ transcribe_var = TRUE
    /\ workers = <<>>
    /\ exit_path = <<>>
    /\ last_click = "none"

\* Lines 185-199, with a file chosen in the dialog.
SelectVideoFile ==
    /\ video_path' = TRUE
    /\ last_click' = "none"
    /\ UNCHANGED <<is_processing, transcribe_var, workers, exit_path>>
    /\ UNCHANGED runVars
    /\ UNCHANGED callVars
    /\ UNCHANGED synthVars
    /\ UNCHANGED frontVars
    /\ UNCHANGED pathVars

\* Lines 120-125: the user ticks or clears the transcription checkbox.
ToggleTranscribe ==
    /\ transcribe_var' = ~transcribe_var
    /\ last_click' = "none"
    /\ UNCHANGED <<is_processing, video_path, workers, exit_path>>
    /\ UNCHANGED runVars
    /\ UNCHANGED callVars
    /\ UNCHANGED synthVars
    /\ UNCHANGED frontVars
    /\ UNCHANGED pathVars

\* Lines 207-247.  exists: the file is there; found: find_ffmpeg found
\* ffmpeg; key: OPENROUTER_API_KEY is set; answer: what askyesno returned.
StartProcessing ==
    /\ Len(workers) < MaxRuns
    /\ \E exists \in BOOLEAN, found \in BOOLEAN, key \in BOOLEAN, answer \in BOOLEAN :
          IF Busy(video_path, is_processing)
          THEN /\ last_click' = "ignored"
               /\ UNCHANGED <<is_processing, transcribe_var, workers, exit_path>>
          ELSE IF ~exists \/ ~found \/ (transcribe_var /\ ~key /\ ~answer)
          THEN /\ last_click' = "refused"
               /\ UNCHANGED <<is_processing, transcribe_var, workers, exit_path>>
          ELSE /\ last_click' = "started"
               /\ transcribe_var' = (transcribe_var /\ key)
               /\ is_processing' = TRUE
               /\ workers' = Append(workers, "convert")
               /\ exit_path' = Append(exit_path, "none")
    /\ UNCHANGED video_path
    /\ UNCHANGED runVars
    /\ UNCHANGED callVars
    /\ UNCHANGED synthVars
    /\ UNCHANGED frontVars
    /\ UNCHANGED pathVars

\* Thread w goes to `to`, leaving the try block by `how` when that is known.
ThreadGoes(w, to, how) ==
    /\ workers' = [workers EXCEPT ![w] = to]
    /\ exit_path' = [exit_path EXCEPT ![w] = IF how = "none" THEN @ ELSE how]

\* Lines 251-275: makedirs, find_ffmpeg and convert_video_to_mp3, which
\* returns, raises, or leaves by sys.exit(1) when ffmpeg failed.
WorkerConvert ==
    /\ \E w \in DOMAIN workers :
          /\ workers[w] = "convert"
          /\ \/ ThreadGoes(w, IF transcribe_var THEN "transcribe" ELSE "report", "none")
             \/ ThreadGoes(w, "except", "exception")
             \/ ThreadGoes(w, "finally", "SystemExit")
    /\ UNCHANGED <<is_processing, video_path, transcribe_var, last_click>>
    /\ UNCHANGED runVars
    /\ UNCHANGED callVars
    /\ UNCHANGED synthVars
    /\ UNCHANGED frontVars
    /\ UNCHANGED pathVars

\* Lines 277-292: transcribe_audio_with_timestamps returns or raises.
WorkerTranscribe ==
    /\ \E w \in DOMAIN workers :
          /\ workers[w] = "transcribe"
          /\ \/ ThreadGoes(w, "report", "none")
             \/ ThreadGoes(w, "except", "exception")
    /\ UNCHANGED <<is_processing, video_path, transcribe_var, last_click>>
    /\ UNCHANGED runVars
    /\ UNCHANGED callVars
    /\ UNCHANGED synthVars
    /\ UNCHANGED frontVars
    /\ UNCHANGED pathVars

\* Lines 294-306: the log lines and showinfo, which return or raise.
WorkerReport ==
    /\ \E w \in DOMAIN workers :
          /\ workers[w] = "report"
          /\ \/ ThreadGoes(w, "finally", "success")
             \/ ThreadGoes(w, "except", "exception")
    /\ UNCHANGED <<is_processing, video_path, transcribe_var, last_click>>
    /\ UNCHANGED runVars
    /\ UNCHANGED callVars
    /\ UNCHANGED synthVars
    /\ UNCHANGED frontVars
    /\ UNCHANGED pathVars

\* Lines 308-312: the handler of `except Exception`; whether it returns or
\* raises, the finally block follows.
WorkerExcept ==
    /\ \E w \in DOMAIN workers :
          /\ workers[w] = "except"
          /\ ThreadGoes(w, "finally", "none")
    /\ UNCHANGED <<is_processing, video_path, transcribe_var, last_click>>
    /\ UNCHANGED runVars
    /\ UNCHANGED callVars
    /\ UNCHANGED synthVars
    /\ UNCHANGED frontVars
    /\ UNCHANGED pathVars

\* Lines 316-318: self.is_processing = False, the first statement of the
\* finally block.
WorkerFinally ==
    /\ \E w \in DOMAIN workers :
          /\ workers[w] = "finally"
          /\ ThreadGoes(w, "cleanup", "none")
    /\ is_processing' = FALSE
    /\ UNCHANGED <<video_path, transcribe_var, last_click>>
    /\ UNCHANGED runVars
    /\ UNCHANGED callVars
    /\ UNCHANGED synthVars
    /\ UNCHANGED frontVars
    /\ UNCHANGED pathVars

\* Lines 319-322: the rest of the finally block, and the thread ends.
WorkerCleanup ==
    /\ \E w \in DOMAIN workers :
          /\ workers[w] = "cleanup"
          /\ ThreadGoes(w, "exited", "none")
    /\ UNCHANGED <<is_processing, video_path, transcribe_var, last_click>>
    /\ UNCHANGED runVars
    /\ UNCHANGED callVars
    /\ UNCHANGED synthVars
    /\ UNCHANGED frontVars
    /\ UNCHANGED pathVars

\* The steps of the threads.
WorkerStep ==
    \/ WorkerConvert
    \/ WorkerTranscribe
    \/ WorkerReport
    \/ WorkerExcept
    \/ WorkerFinally
    \/ WorkerCleanup

NextGui ==
    \/ SelectVideoFile
    \/ ToggleTranscribe
    \/ StartProcessing
    \/ WorkerConvert
    \/ WorkerTranscribe
    \/ WorkerReport
    \/ WorkerExcept
    \/ WorkerFinally
    \/ WorkerCleanup

\* A started thread is scheduled, and each call it makes returns or raises.
SpecGui == InitGui /\ [][NextGui]_vars /\ WF_vars(WorkerStep)

(***************************************************************************)
(* Properties.                                                             *)
(***************************************************************************)
\* A run has ended: it returned, or an exception left it.
Ended == pc \in {"done", "raised"}

\* A split run whose for loop has been entered.
SplitRun == seg_invoked /\ chunks # <<>>

\* A call of transcribe_audio_chunk has returned after a response whose
\* envelope carried a message content.
ContentReturned == c_pc = "returned" /\ c_posted /\ c_in.resp = "ok"

Produced(call) == call.result # None

HasTextField(call) == Produced(call) /\ ObjHas(call.result, TextKey)

HasWordsField(call) == Produced(call) /\ ObjHas(call.result, WordsKey)

TextsInOrder(cs) == [k \in DOMAIN cs |-> ObjGet(cs[k].result, TextKey).str]

WordListsInOrder(cs) == [k \in DOMAIN cs |-> ObjGet(cs[k].result, WordsKey).arr]

RECURSIVE SpaceJoined(_)
SpaceJoined(texts) ==
    IF texts = <<>> THEN <<>>
    ELSE IF Len(texts) = 1 THEN texts[1]
    ELSE texts[1] \o <<SP>> \o SpaceJoined(Tail(texts))

RECURSIVE Concatenated(_)
Concatenated(lists) ==
    IF lists = <<>> THEN <<>> ELSE Head(lists) \o Concatenated(Tail(lists))

MergedOf(cs) ==
    Result(SpaceJoined(TextsInOrder(SelectSeq(cs, HasTextField))),
           Concatenated(WordListsInOrder(SelectSeq(cs, HasWordsField))))

\* C1: in a split run the merged result, and the artifact written from it,
\* has as text the text fields of the segments that returned a result, in
\* segment order with one space between them, and as words the
\* concatenation of those segments' word lists in the same order.
C1_MergeJoinsInOrder ==
    /\ (seg_invoked /\ transcription_data # None) => transcription_data = MergedOf(calls)
    /\ (seg_invoked /\ artifact # None) => artifact = MergedOf(calls)

\* Segment results a at offset 0 and b at offset 300 have merged to the text
\* "a b", with b's span starting at 300.
C1_Witness ==
    /\ SplitRun
    /\ pc = "done"
    /\ ret = "json_path"
    /\ artifact = Result(<<"a", SP, "b">>,
                         <<Span(<<"a">>, 0, 50), Span(<<"b">>, 30000, 30050)>>)

\* C2: a split run of two or more segments in which some segment returned
\* a result ends with every segment attempted and with success: the
\* artifact is written and its path returned.
C2_PartialFailureIsSuccess ==
    (SplitRun /\ Len(chunks) >= 2 /\ Ended /\ \E k \in DOMAIN calls : Produced(calls[k]))
        => /\ Len(calls) = Len(chunks)
           /\ ret = "json_path"
           /\ artifact # None

\* C3: a split run in which every segment's call returned no result
\* returns no path and writes no artifact.
C3_AllFailedIsFailure ==
    (SplitRun /\ Ended /\ Len(calls) = Len(chunks)
        /\ \A k \in DOMAIN calls : ~Produced(calls[k]))
        => ret = "None" /\ artifact = None

\* C4: whatever the message content of a well-formed response envelope,
\* transcribe_audio_chunk returns a result, never None.
C4_ContentAlwaysYieldsResult == ContentReturned => c_out # None

IsSpan(v) ==
    /\ v.t = "obj"
    /\ ObjHas(v, WordKey) /\ ObjGet(v, WordKey).t = "str"
    /\ ObjHas(v, StartKey) /\ ObjGet(v, StartKey).t = "num"
    /\ ObjHas(v, EndKey) /\ ObjGet(v, EndKey).t = "num"

\* A JSON object with a text string and a list of spans that is not empty.
WellFormed(doc) ==
    /\ doc.ok
    /\ doc.val.t = "obj"
    /\ ObjHas(doc.val, TextKey) /\ ObjGet(doc.val, TextKey).t = "str"
    /\ ObjHas(doc.val, WordsKey) /\ ObjGet(doc.val, WordsKey).t = "arr"
    /\ ObjGet(doc.val, WordsKey).arr # <<>>
    /\ \A k \in DOMAIN ObjGet(doc.val, WordsKey).arr : IsSpan(ObjGet(doc.val, WordsKey).arr[k])

Moved(span, chunk_offset) ==
    Span(ObjGet(span, WordKey).str,
         ObjGet(span, StartKey).num + 100 * chunk_offset,
         ObjGet(span, EndKey).num + 100 * chunk_offset)

SameMembers(a, b) ==
    /\ a.t = "obj"
    /\ \A k \in DOMAIN b.obj : ObjHas(a, b.obj[k].k) /\ ObjGet(a, b.obj[k].k) = b.obj[k].v
    /\ \A k \in DOMAIN a.obj : ObjHas(b, a.obj[k].k)

MovedFrom(out, doc, chunk_offset) ==
    /\ out # None
    /\ ObjHas(out, TextKey) /\ ObjGet(out, TextKey) = ObjGet(doc.val, TextKey)
    /\ ObjHas(out, WordsKey) /\ ObjGet(out, WordsKey).t = "arr"
    /\ Len(ObjGet(out, WordsKey).arr) = Len(ObjGet(doc.val, WordsKey).arr)
    /\ \A k \in DOMAIN ObjGet(out, WordsKey).arr :
          SameMembers(ObjGet(out, WordsKey).arr[k],
                      Moved(ObjGet(doc.val, WordsKey).arr[k], chunk_offset))

ShiftedIfWellFormed(doc) == WellFormed(doc) => MovedFrom(c_out, doc, c_in.offset)

\* C5: when the content is a well-formed JSON object with a words list that
\* is not empty, the result has the same spans in the same order, each
\* start and end moved by exactly chunk_offset, and the same text.
C5_WellFormedIsShifted == ContentReturned => ShiftedIfWellFormed(JsonLoads(c_in.content))

\* The documents with a text string followed by a words list of spans.
TextThenWords == {DocA, DocB, DocHello, DocEmptyText, DocBrace, DocQuote}

\* content is d cut off inside its words array.
CutInsideWords(content, d) ==
    \E n \in Find(d, <<"[">>, 1)..(RFind(d, "]") - 1) : content = SubSeq(d, 1, n)

KeepsTextOf(out, data) ==
    out # None /\ ObjHas(out, TextKey) /\ ObjGet(out, TextKey) = ObjGet(data, TextKey)

\* C6: for a content that is a document cut off inside its words array,
\* the result is not None and its text is the value of the text field,
\* with and without a duration from the probe.
C6_TruncatedKeepsText ==
    \A d \in TextThenWords :
        (ContentReturned /\ CutInsideWords(c_in.content, d))
            => KeepsTextOf(c_out, JsonLoads(d).val)

PlainResult(out) ==
    /\ out # None
    /\ ObjHas(out, TextKey) /\ ObjGet(out, TextKey).t = "str"
    /\ Contains(ObjGet(out, TextKey).str, <<"Just", SP, "plain", SP, "text">>)
    /\ ObjHas(out, WordsKey) /\ ObjGet(out, WordsKey).t = "arr"
    /\ \A k \in DOMAIN ObjGet(out, WordsKey).arr : IsSpan(ObjGet(out, WordsKey).arr[k])

\* C7: for a content that is plain text, inside double quotes or not, the
\* result is not None, its text contains the content and its words are a
\* list of spans, possibly empty.
C7_PlainTextYieldsResult ==
    (ContentReturned /\ c_in.content \in {PlainText, SerStr(PlainText)}) => PlainResult(c_out)

\* A run that was given an API key and a file of at most 5 MiB.
WholeRun == api_key /\ file_size <= 5 * 1024 * 1024

\* C8: a run on a file of at most 5 MiB makes one call, with offset 0, on
\* the whole file; when that call returns no result the run returns no path
\* and writes no artifact.
C8_WholeFileOneCall ==
    WholeRun =>
        /\ Len(calls) <= 1
        /\ Ended => Len(calls) = 1
        /\ \A k \in DOMAIN calls : calls[k].whole /\ calls[k].offset = 0
        /\ (\E k \in DOMAIN calls : ~Produced(calls[k]))
               => pc = "done" /\ ret = "None" /\ artifact = None

\* The sole call of a whole-file run has failed and the run has returned.
C8_Witness ==
    /\ WholeRun
    /\ pc = "done"
    /\ Len(calls) = 1
    /\ calls[1].posted
    /\ ~Produced(calls[1])
    /\ ret = "None"
    /\ artifact = None

\* C9: the segmenter is invoked only for a file of more than 5*1024*1024
\* bytes, and a run given an API key invokes it for every such file; a
\* file of 5 MiB or less is transcribed whole, by one call with offset 0.
C9_SplitIffAboveThreshold ==
    /\ seg_invoked => file_size > 5 * 1024 * 1024
    /\ (\E k \in DOMAIN calls : ~calls[k].whole) => file_size > 5 * 1024 * 1024
    /\ (api_key /\ pc \notin {"start", "decide"})
          => (seg_invoked <=> file_size > 5 * 1024 * 1024)
    /\ (api_key /\ Ended /\ file_size <= 5 * 1024 * 1024)
          => ~seg_invoked /\ files = {} /\ Len(calls) = 1
               /\ calls[1].whole /\ calls[1].offset = 0 /\ calls[1].size = file_size

\* A file of exactly 5 MiB has been transcribed whole and saved.
C9_Witness ==
    /\ file_size = 5 * 1024 * 1024
    /\ pc = "done"
    /\ ret = "json_path"
    /\ ~seg_invoked
    /\ Len(calls) = 1
    /\ calls[1].whole

\* C10: for a file of more than 10 MiB transcribe_audio_chunk returns None
\* and never posts a request; a file of exactly 10 MiB passes the size
\* check, and is posted when it can be read.
C10_SizeGuard ==
    /\ c_in.size > 10 * 1024 * 1024
          => /\ ~c_posted
             /\ c_pc \in {"size", "returned"}
             /\ c_pc = "returned" => c_out = None
    /\ (c_in.size = 10 * 1024 * 1024 /\ c_pc = "returned" /\ c_in.readable) => c_posted

\* A readable file of one byte more than 10 MiB, whose request would have
\* been answered, has been turned away without a request.
C10_Witness ==
    /\ c_in.size = 10 * 1024 * 1024 + 1
    /\ c_in.readable
    /\ c_in.resp = "ok"
    /\ c_pc = "returned"
    /\ ~c_posted
    /\ c_out = None

CeilDiv(a, b) == (a + b - 1) \div b

\* split_audio_into_chunks has returned.
SegmenterReturned == seg_invoked /\ pc # "split"

\* No extraction of a window inside the source has failed.
ExtractedToTheEnd == ~InsideSource(start_time)

\* The file of the segment at position k of the returned list is the window
\* that starts at (k - 1) * chunk_duration.
WindowInPlace(k) ==
    /\ chunks[k] = k - 1
    /\ \E f \in files : f.index = k - 1 /\ f.start = (k - 1) * ChunkDuration /\ f.size > 0

Synthesized == g_pc = "done" /\ g_in.duration > 0 /\ FindWords(g_in.text) # <<>>

SpanStart(k) == ObjGet(words_with_timestamps[k], StartKey).num

SpanEnd(k) == ObjGet(words_with_timestamps[k], EndKey).num

\* N spans, the k-th for the k-th word token.
OneSpanPerToken ==
    /\ Len(words_with_timestamps) = Len(FindWords(g_in.text))
    /\ \A k \in DOMAIN words_with_timestamps :
          ObjGet(words_with_timestamps[k], WordKey) = JStr(<<FindWords(g_in.text)[k]>>)

StartsNonDecreasing ==
    \A k \in 1..(Len(words_with_timestamps) - 1) : SpanStart(k) <= SpanStart(k + 1)

\* start[k+1] - start[k] is D/N to within one hundredth of a second.
UniformStarts ==
    \A k \in 1..(Len(words_with_timestamps) - 1) :
        LET n == Len(words_with_timestamps)
            gap == (SpanStart(k + 1) - SpanStart(k)) * n
        IN  gap - n <= g_in.duration /\ g_in.duration <= gap + n

\* end - start of every span lies in [lo, hi] centiseconds.
WidthsWithin(lo, hi) ==
    \A k \in DOMAIN words_with_timestamps :
        lo <= SpanEnd(k) - SpanStart(k) /\ SpanEnd(k) - SpanStart(k) <= hi

\* C12 as stated: for every duration D > 0 and every text with N >= 1 word
\* tokens, generate_word_timestamps returns exactly N spans in token order,
\* non-decreasing in start, consecutive starts differing by D/N within
\* rounding, and every span's end - start in [0.2, 0.8].
C12_WidthsInHeuristicRange ==
    Synthesized =>
        /\ OneSpanPerToken
        /\ StartsNonDecreasing
        /\ UniformStarts
        /\ WidthsWithin(20, 80)

\* C12, amended: exactly N spans in token order, non-decreasing in start,
\* consecutive starts differing by D/N within rounding, and every span's
\* end - start within one hundredth of a second of the word's heuristic
\* duration, which lies in [0.2, 0.8]: start and end are rounded to two
\* decimals apart, so end - start lies in [0.19, 0.81].
C12_WidthsWithinRounding ==
    Synthesized =>
        /\ OneSpanPerToken
        /\ StartsNonDecreasing
        /\ UniformStarts
        /\ WidthsWithin(19, 81)
        /\ \A k \in DOMAIN words_with_timestamps :
              LET d == WordDuration(g_words[k])
              IN  /\ 20 <= d /\ d <= 80
                  /\ d - 1 <= SpanEnd(k) - SpanStart(k)
                  /\ SpanEnd(k) - SpanStart(k) <= d + 1

\* Three words over 0.11 s: the second span overlaps the third, and the
\* third is a clamped 13-character word.
C12_Witness ==
    /\ Synthesized
    /\ Len(words_with_timestamps) = 3
    /\ g_in.duration = 11
    /\ SpanEnd(2) > SpanStart(3)
    /\ SpanEnd(3) - SpanStart(3) = 80

(***************************************************************************)
(* C13: the order of the spans of a persisted result.                      *)
(***************************************************************************)
\* The items of the words list of a result, none when it has no list.
WordItems(result) ==
    IF result.t = "obj" /\ ObjHas(result, WordsKey) /\ ObjGet(result, WordsKey).t = "arr"
    THEN ObjGet(result, WordsKey).arr
    ELSE <<>>

\* Every span ends no earlier than it starts.
EndsAfterStarts(spans) ==
    \A k \in DOMAIN spans :
        IsSpan(spans[k]) => ObjGet(spans[k], StartKey).num <= ObjGet(spans[k], EndKey).num

\* No span starts earlier than the span before it.
NonDecreasingStarts(spans) ==
    \A k \in 1..(Len(spans) - 1) :
        (IsSpan(spans[k]) /\ IsSpan(spans[k + 1]))
            => ObjGet(spans[k], StartKey).num <= ObjGet(spans[k + 1], StartKey).num

\* C13: every result the orchestrator persists has, when its words are not
\* empty, spans non-decreasing in start across the whole merged list and
\* every span with end >= start, whatever word lists the segments' responses
\* carried.
C13_PersistedSpansOrdered ==
    artifact # None =>
        /\ NonDecreasingStarts(WordItems(artifact))
        /\ EndsAfterStarts(WordItems(artifact))

(***************************************************************************)
(* C14: the shape of what transcribe_audio_chunk returns.                  *)
(***************************************************************************)
\* A call of transcribe_audio_chunk has returned a result.
ReturnedResult == c_pc = "returned" /\ c_out # None

\* An object with a text field and a words field that is a list of objects.
ResultShape(out) ==
    /\ out.t = "obj"
    /\ ObjHas(out, TextKey)
    /\ ObjHas(out, WordsKey)
    /\ ObjGet(out, WordsKey).t = "arr"
    /\ \A k \in DOMAIN ObjGet(out, WordsKey).arr : ObjGet(out, WordsKey).arr[k].t = "obj"

\* C14: every result transcribe_audio_chunk returns that is not None has a
\* text field and a words field, and its words are a sequence of spans,
\* possibly empty: on every branch, also for a parsed object with words and
\* no text, or with words null.
C14_ResultHasShape == ReturnedResult => ResultShape(c_out)

(***************************************************************************)
(* C15: the segment files after their transcription attempts.              *)
(***************************************************************************)
\* The file of the k-th segment is in the chunks directory.
SegmentFileRemains(k) == \E f \in files : f.index = chunks[k]

\* C15: the file of a segment is deleted once its transcription attempt has
\* completed, whether it returned a result or not, so that no segment file
\* of the run remains when transcribe_audio_with_timestamps returns.
C15_SegmentFilesDeleted ==
    /\ \A k \in DOMAIN chunks : k <= i => ~SegmentFileRemains(k)
    /\ (Ended /\ ret # "exception") => \A k \in DOMAIN chunks : ~SegmentFileRemains(k)

(***************************************************************************)
(* C16: a failed audio extraction ends the run.                            *)
(***************************************************************************)
\* convert_video_to_mp3 was called and did not return an MP3.
ConvertFailed == mp3_path = "None"

\* transcribe_audio_with_timestamps was not called: it made no call of
\* transcribe_audio_chunk, ran no segmenter and wrote nothing.
NeverTranscribed ==
    /\ pc = "idle"
    /\ calls = <<>>
    /\ ~seg_invoked
    /\ files = {}
    /\ transcription_data = None
    /\ artifact = None

\* C16: when convert_video_to_mp3 fails, in main, in the GUI worker and in
\* the web /process generator alike, the run ends with
\* transcribe_audio_with_timestamps never called, no remote request made and
\* no JSON artifact written.
C16_FailedConvertEndsRun ==
    ConvertFailed =>
        /\ NeverTranscribed
        /\ f_pc \in {"exited", "returned", "thread_died", "error_shown"}

\* The GUI worker, transcription on, after ffmpeg returned an error.
C16_Witness ==
    /\ ConvertFailed
    /\ entry = "gui"
    /\ transcribe
    /\ ffmpeg_path
    /\ f_pc = "thread_died"

(***************************************************************************)
(* C17: a content that is already a valid JSON object.                     *)
(***************************************************************************)
\* The content, once a surrounding code fence is stripped, is a JSON object.
ValidObject(content) ==
    JsonLoads(StripFence(content)).ok /\ JsonLoads(StripFence(content)).val.t = "obj"

\* What the structured path makes of the content parsed as it is.
ParsedAsIs(in) ==
    CompleteParsed(JsonLoads(StripFence(in.content)).val, StripFence(in.content),
                   in.duration, in.offset)

\* C17: whenever the content, after the stripping of a surrounding code
\* fence, is a valid JSON object, it is parsed as it is: the truncation
\* repair does not alter it and the result is that of the structured path,
\* not of the text-extraction fallback; also when a string value of the
\* object holds an unmatched brace.
C17_ValidObjectParsedAsIs ==
    (ContentReturned /\ ValidObject(c_in.content))
        => /\ Candidate(c_in.content) = StripFence(c_in.content)
           /\ c_out = ParsedAsIs(c_in)

(***************************************************************************)
(* C18: the repair of a content cut off inside its words array.            *)
(***************************************************************************)
\* t has a "words" key, an opened array, no ']' anywhere and more '{' than
\* '}'.
UnclosedWords(t) ==
    /\ Contains(t, <<Q, "words", Q>>)
    /\ RFind(t, "[") # 0
    /\ RFind(t, "]") = 0
    /\ Count(t, "{") > Count(t, "}")

\* The repaired candidate parses to a JSON object.
RepairParses(content) ==
    JsonLoads(Candidate(content)).ok /\ JsonLoads(Candidate(content)).val.t = "obj"

\* What the structured path makes of the repaired candidate.
ParsedRepaired(in) ==
    CompleteParsed(JsonLoads(Candidate(in.content)).val, Candidate(in.content),
                   in.duration, in.offset)

\* C18: for a content cut off inside a words array that was never closed,
\* the truncation repair gives a candidate that is a well-formed JSON
\* object, so that the parse succeeds and the result comes from the
\* structured path, not from the text-extraction fallback.
C18_RepairedCandidateParses ==
    (ContentReturned /\ UnclosedWords(StripFence(c_in.content)))
        => /\ RepairParses(c_in.content)
           /\ c_out = ParsedRepaired(c_in)

(***************************************************************************)
(* C19: the completion of a parsed object without words.                   *)
(***************************************************************************)
\* The candidate parsed to an object that has no words field, or an empty
\* one.
ParsedWithoutWords(in) ==
    /\ RepairParses(in.content)
    /\ \/ ~ObjHas(JsonLoads(Candidate(in.content)).val, WordsKey)
       \/ ObjGet(JsonLoads(Candidate(in.content)).val, WordsKey) = JArr(<<>>)

ParsedOf(in) == JsonLoads(Candidate(in.content)).val

\* (a) words are the timestamps synthesized for the text at the offset.
SynthesizedFor(out, in) ==
    /\ out # None
    /\ ObjHas(out, WordsKey)
    /\ ObjGet(out, WordsKey)
          = JArr(GenerateWordTimestamps(ObjGet(ParsedOf(in), TextKey).str, in.duration, in.offset))

\* (b) words are an empty list, text is the raw candidate when it was missing.
EmptyWordsFor(out, in) ==
    /\ out # None
    /\ ObjHas(out, WordsKey)
    /\ ObjGet(out, WordsKey) = JArr(<<>>)
    /\ ObjHas(out, TextKey)
    /\ ~ObjHas(ParsedOf(in), TextKey) => ObjGet(out, TextKey) = JStr(Candidate(in.content))

\* An existing text field is left as it was.
TextKept(out, in) ==
    ObjHas(ParsedOf(in), TextKey)
        => out # None /\ ObjHas(out, TextKey) /\ ObjGet(out, TextKey) = ObjGet(ParsedOf(in), TextKey)

\* C19: when the structured parse succeeds and the object has no words field
\* or an empty one, then (a) with a known duration and a text field, words
\* become the timestamps synthesized for that text at the segment's offset;
\* (b) otherwise words are an empty list and text defaults to the raw
\* candidate when the text field is missing; in both cases an existing text
\* field is left unchanged.
C19_ParsedWithoutWordsCompleted ==
    (ContentReturned /\ ParsedWithoutWords(c_in))
        => /\ IF DurationKnown(c_in.duration) /\ ObjHas(ParsedOf(c_in), TextKey)
              THEN SynthesizedFor(c_out, c_in)
              ELSE EmptyWordsFor(c_out, c_in)
           /\ TextKept(c_out, c_in)

\* (a) a text-only document with a known duration got its two spans.
C19_Witness ==
    /\ ContentReturned
    /\ c_in.content = DocTextOnly
    /\ c_in.duration = 150
    /\ c_in.offset = 300
    /\ ObjGet(c_out, WordsKey) = JArr(<<Span(<<"hello">>, 30000, 30050), Span(<<"world">>, 30075, 30125)>>)

(***************************************************************************)
(* C20: an unknown duration.                                               *)
(***************************************************************************)
\* get_audio_duration gives a number of centiseconds or the unknown
\* sentinel, whatever the probe does.
ProbeNeverFatal ==
    \A probe \in Probes : GetAudioDuration(probe) = Unknown \/ GetAudioDuration(probe) \in Nat

\* The call asks for the duration: the candidate does not parse (lines
\* 427-440), or parses to an object whose words are missing or falsy (lines
\* 362-379).
NeedsSynthesis(in) ==
    \/ ~JsonLoads(Candidate(in.content)).ok
    \/ /\ ParsedOf(in).t = "obj"
       /\ (ObjHas(ParsedOf(in), WordsKey) => ~Truthy(ObjGet(ParsedOf(in), WordsKey)))

\* A result with a text and an empty words list.
TextAndNoWords(out) ==
    /\ out # None
    /\ ObjHas(out, TextKey)
    /\ ObjHas(out, WordsKey)
    /\ ObjGet(out, WordsKey) = JArr(<<>>)

\* C20: get_audio_duration returns a number of seconds or the unknown
\* sentinel and never raises, and whenever the duration is unknown on a path
\* that needs synthesis, transcribe_audio_chunk returns a result with the
\* extracted text and an empty words list.
C20_UnknownDurationNotFatal ==
    /\ ProbeNeverFatal
    /\ (ContentReturned /\ c_in.duration = Unknown /\ NeedsSynthesis(c_in))
          => TextAndNoWords(c_out)

\* A text-only document whose duration is unknown came back with its text
\* and no words.
C20_Witness ==
    /\ ContentReturned
    /\ c_in.duration = Unknown
    /\ c_in.content = DocTextOnly
    /\ c_out = Result(<<"Hello", SP, "world">>, <<>>)

(***************************************************************************)
(* C21: where the segmenter stops.                                         *)
(***************************************************************************)
\* The segmenter has left its loop.
SegmenterStopped == stopped_by # "none"

\* The list holds the indices 0..k-1 in order, each with a file that is not
\* empty, and nothing was kept for an index past k.
FirstSegmentsOnly ==
    /\ chunk_index = Len(chunks)
    /\ \A k \in DOMAIN chunks :
          /\ chunks[k] = k - 1
          /\ \E f \in files : f.index = chunks[k] /\ f.size > 0
    /\ \A f \in files :
          \/ f.index < chunk_index /\ f.size > 0
          \/ f.index = chunk_index /\ f.size = 0 /\ stopped_by = "empty"
    /\ SegmenterStopped <=> (seg_invoked /\ pc # "split")

\* C21: split_audio_into_chunks stops at the first index whose extraction
\* gives no file, an empty file or an error: no later index is extracted,
\* and the list it returns is the segments of the indices before it, none
\* of them empty, in increasing order.
C21_StopsAtFirstUnusable ==
    /\ []FirstSegmentsOnly
    /\ [][SegmenterStopped => UNCHANGED <<chunks, chunk_index, start_time, files, stopped_by>>]_vars

\* The extraction of index 1 failed with two more segments of the source to
\* come, and the run went on with segment 0 alone.
C21_Witness ==
    /\ stopped_by = "error"
    /\ chunks = <<0>>
    /\ source_duration = 3 * ChunkDuration
    /\ pc = "loop"

(***************************************************************************)
(* C22: the file of the index at which the segmenter stopped.              *)
(***************************************************************************)
\* A file exists at the path of the index the segmenter stopped at.
TerminalFileRemains == \E f \in files : f.index = chunk_index

\* The files of the returned segments are in place.
SegmentFilesKept == \A k \in DOMAIN chunks : \E f \in files : f.index = chunks[k] /\ f.size > 0

\* C22: when split_audio_into_chunks returns, no file exists at the path of
\* the index at which it stopped, both after an extraction error and after
\* an extraction that left an empty file, and the files of the returned
\* segments are untouched.
C22_TerminalArtifactDiscarded ==
    SegmenterStopped => (~TerminalFileRemains /\ SegmentFilesKept)

(***************************************************************************)
(* C23: the order and the number of the transcription attempts.            *)
(***************************************************************************)
\* The k-th call of the run was made for the k-th segment, with its file.
AttemptsInOrder ==
    /\ Len(calls) <= Len(chunks)
    /\ \A k \in DOMAIN calls : ~calls[k].whole /\ calls[k].index = chunks[k]
    /\ pc = "loop" => Len(calls) = i

\* C23: in a split run the segments are transcribed one at a time in
\* increasing index order, the call for a segment made only after the call
\* for the one before it has returned, and every segment gets exactly one
\* attempt: none is retried and none is skipped.
C23_OneAttemptEachInOrder ==
    seg_invoked =>
        /\ AttemptsInOrder
        /\ (Ended /\ chunks # <<>>) => Len(calls) = Len(chunks)

\* Three segments, three calls in order, the second without a result.
C23_Witness ==
    /\ seg_invoked
    /\ pc = "done"
    /\ Len(chunks) = 3
    /\ Len(calls) = 3
    /\ \A k \in 1..3 : calls[k].index = k - 1 /\ calls[k].offset = ChunkOffset(k - 1)
    /\ ~Produced(calls[2])
    /\ Produced(calls[3])

(***************************************************************************)
(* C24: the offset of a segment and the start of its window.               *)
(***************************************************************************)
\* The call for list position k got the offset (k - 1) * chunk_duration, the
\* start of the window its file was extracted from.
OffsetIsWindowStart(k) ==
    /\ calls[k].offset = (k - 1) * ChunkDuration
    /\ \E f \in files : f.index = calls[k].index /\ f.start = calls[k].offset

\* C24: the offset the orchestrator passes for the segment at list position
\* i is i * chunk_duration and equals the start time the segmenter extracted
\* that segment with: in the segmenter loop start_time = chunk_index *
\* chunk_duration throughout, and the returned list has no index gaps.
C24_OffsetMatchesExtraction ==
    /\ start_time = chunk_index * ChunkDuration
    /\ \A k \in DOMAIN chunks : chunks[k] = k - 1
    /\ \A f \in files : f.start = f.index * ChunkDuration
    /\ seg_invoked => \A k \in DOMAIN calls : OffsetIsWindowStart(k)

\* The third segment was called with offset 600, the start of its window.
C24_Witness ==
    /\ seg_invoked
    /\ Len(calls) = 3
    /\ calls[3].offset = 2 * ChunkDuration
    /\ calls[3].index = 2
    /\ \E f \in files : f.index = 2 /\ f.start = 2 * ChunkDuration /\ f.size > 0

\* ---------------------------------------------------------------------
\* C25.  The offset is added once: the result for chunk_offset k is the
\* result for chunk_offset 0 with k added to every start and end.
\* ---------------------------------------------------------------------

ZeroStart(k) == ObjGet(at_offset_zero[k], StartKey).num

ZeroEnd(k) == ObjGet(at_offset_zero[k], EndKey).num

\* Every start and end is the one of the offset-0 result plus the offset,
\* give or take `slack` centiseconds.
ShiftedByOffset(slack) ==
    /\ Len(words_with_timestamps) = Len(at_offset_zero)
    /\ \A k \in DOMAIN words_with_timestamps :
          /\ ObjGet(words_with_timestamps[k], WordKey) = ObjGet(at_offset_zero[k], WordKey)
          /\ SpanStart(k) - ZeroStart(k) - 100 * g_in.chunk_offset \in -slack .. slack
          /\ SpanEnd(k) - ZeroEnd(k) - 100 * g_in.chunk_offset \in -slack .. slack

SegmenterGaveNothing ==
    /\ seg_invoked
    /\ pc \notin {"split", "split_done"}
    /\ chunks = <<>>

FailedQuietly ==
    /\ pc = "done"
    /\ ret = "None"
    /\ calls = <<>>
    /\ artifact = None

\* C26: once the segmenter has returned an empty list for an input over
\* 5 MiB, the function has returned None, no call of transcribe_audio_chunk
\* (hence no request) was made and no JSON file was written.
C26_NoSegmentEndsRun == SegmenterGaveNothing => FailedQuietly

C26_Witness ==
    /\ SegmenterGaveNothing
    /\ FailedQuietly
    /\ file_size > FiveMiB
    /\ stopped_by = "empty"
    /\ chunk_index = 0

\* ---------------------------------------------------------------------
\* C27.  The JSON file is written at most once, after every segment was
\* attempted, and holds the merged result.
\* ---------------------------------------------------------------------

JsonWritten == artifact # None

\* Every segment the segmenter returned has had its call.
EverySegmentAttempted ==
    /\ i = Len(chunks)
    /\ Len(calls) = Len(chunks)
    /\ \A k \in DOMAIN calls : ~calls[k].whole /\ calls[k].index = chunks[k]

\* The file holds transcription_data, which on the split path is the text
\* parts joined and the words of all segments.
HoldsMergedResult ==
    /\ artifact = transcription_data
    /\ seg_invoked => artifact = Result(JoinText(full_text_parts), all_words)

WrittenAfterAllAttempts ==
    JsonWritten =>
        /\ pc \in {"done", "raised"}
        /\ seg_invoked => EverySegmentAttempted
        /\ HoldsMergedResult

\* C27: whenever the JSON file exists the run is over, every segment has
\* been attempted and the file holds exactly the merged result; and a file
\* once written is not written again.
C27_ArtifactWrittenOnceAtEnd ==
    /\ []WrittenAfterAllAttempts
    /\ [][JsonWritten => artifact' = artifact]_vars

C27_Witness ==
    /\ JsonWritten
    /\ seg_invoked
    /\ Len(chunks) = 2
    /\ ~Truthy(calls[1].result)
    /\ Truthy(calls[2].result)
    /\ ret = "json_path"

\* ---------------------------------------------------------------------
\* C28.  The JSON file is never written over the audio that was
\* transcribed.
\* ---------------------------------------------------------------------

JsonFileWritten == path_pc = "written"

\* C28: in each of the three programs, and for every name of the audio
\* file, the path the JSON is written to is not the path of the audio.
C28_JsonNeverOverAudio == JsonFileWritten => json_path # audio_path

\* A name ending in .mp3 gets a path of its own.
C28_Witness ==
    /\ JsonFileWritten
    /\ script = "transcribe_audio"
    /\ audio_path = <<"out", "/", "a", ".mp3">>
    /\ json_path = <<"out", "/", "a", "_transcription.json">>

\* ---------------------------------------------------------------------
\* C29.  Synthesized spans lie inside the window of the segment.
\* ---------------------------------------------------------------------

WindowStart == 100 * g_in.chunk_offset

WindowEnd == 100 * g_in.chunk_offset + g_in.duration

InsideWindow(k) == WindowStart <= SpanStart(k) /\ SpanEnd(k) <= WindowEnd

\* C29: for a duration D > 0, every span generate_word_timestamps returns
\* has chunk_offset <= start and end <= chunk_offset + D.
C29_SpansInsideWindow ==
    Synthesized => \A k \in DOMAIN words_with_timestamps : InsideWindow(k)

\* Three words spread over 300 s lie inside the window.
C29_Witness ==
    /\ Synthesized
    /\ g_in.duration = 30000
    /\ g_in.chunk_offset = 300
    /\ Len(words_with_timestamps) = 3
    /\ \A k \in DOMAIN words_with_timestamps : InsideWindow(k)

\* ---------------------------------------------------------------------
\* C30.  The desktop GUI runs at most one pipeline at a time and is
\* unlocked again whenever the run ends.
\* ---------------------------------------------------------------------

\* Thread w is between its start and the statement that clears the flag.
InPipeline(w) == workers[w] \in {"convert", "transcribe", "report", "except", "finally"}

AtMostOneRun == Cardinality({w \in DOMAIN workers : InPipeline(w)}) <= 1

\* The flag is set exactly while a thread is in its pipeline.
FlagMeansRun == is_processing <=> \E w \in DOMAIN workers : InPipeline(w)

\* A thread is started only with the flag clear, and the flag is set by then.
StartedOnlyWhenIdle == Len(workers') > Len(workers) => (~is_processing /\ is_processing')

\* The flag is cleared only by the finally block of the running thread.
ClearedOnlyByWorker ==
    (is_processing /\ ~is_processing') =>
        \E w \in DOMAIN workers : workers[w] = "finally" /\ workers'[w] = "cleanup"

\* C30: at most one thread runs the pipeline at any time; a thread is
\* started only when is_processing is false, which is true before it runs;
\* is_processing turns false only in the finally block of that thread; and
\* on every exit path it does turn false, so the window never stays locked.
C30_OneRunAndNeverLocked ==
    /\ [](AtMostOneRun /\ FlagMeansRun)
    /\ [][StartedOnlyWhenIdle /\ ClearedOnlyByWorker]_vars
    /\ (is_processing ~> ~is_processing)

\* A run that left by SystemExit was followed by a second run.
C30_Witness ==
    /\ Len(workers) = 2
    /\ exit_path[1] = "SystemExit"
    /\ workers[1] = "exited"
    /\ workers[2] = "convert"
    /\ is_processing
    /\ last_click = "ignored"

====
